---------------------------- MODULE Spec2Model ----------------------------
(***************************************************************************)
(* Model of the AWS infrastructure validation of gardener-extensions:      *)
(*   validation.ValidateInfrastructureConfig / ...ConfigUpdate             *)
(*   (package controllers/provider-aws/pkg/apis/aws/validation).           *)
(*                                                                         *)
(* The validation functions are pure.  The state machine is an admission   *)
(* session: a client composes a request (an InfrastructureConfig plus the  *)
(* shoot's node/pod/service CIDRs) by editing fields of a well-formed      *)
(* request, and the webhook then validates it on the create path or, given *)
(* an old object, on the update path.                                      *)
(*                                                                         *)
(* Addresses are AddrBits wide instead of 32.  A CIDR string "a/l" is the  *)
(* record [ip |-> a, len |-> l]; it parses (net.ParseCIDR) iff a is an     *)
(* address and 0 <= l <= AddrBits, and parsing masks the host bits.        *)
(*                                                                         *)
(* The functions of package cidrvalidation                                 *)
(* (github.com/gardener/gardener/pkg/utils/validation/cidr) and            *)
(* apivalidation.ValidateImmutableField are library code called from the   *)
(* validation; they are modelled by what they do:                          *)
(*   - ValidateSubset / ValidateNotSubset test net.Contains of the other   *)
(*     CIDR's network address, skip nil, unparseable and identical         *)
(*     operands, and report at the operand's field path;                   *)
(*   - ValidateCIDROverlap(l, r, false) is l[i].ValidateNotSubset(r...)    *)
(*     for every non-nil l[i];                                             *)
(*   - ValidateCIDRIsCanonical reports a parseable string whose address    *)
(*     differs from its network address.                                   *)
(***************************************************************************)
EXTENDS Integers, Sequences, FiniteSets, TLC

VARIABLES infra, oldInfra, nodesCIDR, podsCIDR, servicesCIDR, allErrs, pc,
          typesMap, calls

vars == <<infra, oldInfra, nodesCIDR, podsCIDR, servicesCIDR, allErrs, pc, typesMap, calls>>

\* the variables of the admission session and those of the webhook
sessionVars == <<infra, oldInfra, nodesCIDR, podsCIDR, servicesCIDR, allErrs, pc>>

webhookVars == <<typesMap, calls>>

---------------------------------------------------------------------------
(* Bounds *)

\* width of an address in bits (IPv4: 32)
AddrBits == 5

\* largest number of zones in a request
MaxZones == 2

\* largest number of fields in which a request differs from the well-formed one
MaxEdits == 2

\* the pools of a Worker
MaxPools == 2

\* the admission requests handled at the same time
MaxCalls == 2

---------------------------------------------------------------------------
(* CIDR strings and net.ParseCIDR / net.IPNet *)

NumAddrs == 2 ^ AddrBits

\* the string "ip/len"
Lit(ip, len) == [ip |-> ip, len |-> len]

\* the CIDR string of the block of `size` addresses (a power of two) at `ip`
RECURSIVE Log2(_)
Log2(n) == IF n <= 1 THEN 0 ELSE 1 + Log2(n \div 2)

Block(ip, size) == Lit(ip, AddrBits - Log2(size))

\* the empty string
EmptyCIDR == Lit(-1, -1)

\* a string net.ParseCIDR rejects (prefix length beyond the address width)
Unparseable == Lit(0, AddrBits + 1)

\* net.ParseCIDR succeeds
ParseOK(c) == c.ip >= 0 /\ c.ip < NumAddrs /\ c.len >= 0 /\ c.len <= AddrBits

\* the address ip with the host bits of a /len network cleared
Mask(ip, len) == ip - (ip % (2 ^ (AddrBits - len)))

\* the *net.IPNet net.ParseCIDR returns: network address and prefix length
ParseNet(c) == IF ParseOK(c) THEN Lit(Mask(c.ip, c.len), c.len) ELSE EmptyCIDR

\* (*net.IPNet).Contains(ip)
Contains(n, ip) == Mask(ip, n.len) = n.ip

\* all addresses of a network
Addresses(n) == {a \in 0..(NumAddrs - 1) : Contains(n, a)}

---------------------------------------------------------------------------
(* field.Path and field.Error *)

Path(base, idx, child) == [base |-> base, idx |-> idx, child |-> child]

\* a nil *field.Path
NilPath == Path("<nil>", -1, "")

networksPath == Path("networks", -1, "")

zonesPath == Path("networks.zones", -1, "")

\* networks.zones[i-1].kind  (i counts from 1 in the model, from 0 in Go)
ZonePath(i, kind) == Path("networks.zones", i - 1, kind)

vpcPath == Path("networks.vpc", -1, "")

vpcCIDRPath == Path("networks.vpc.cidr", -1, "")

Kinds == <<"internal", "public", "workers">>

\* a field.Error: Type, Field, BadValue (kept when it is a CIDR string) and Detail;
\* a detail "<msg> <path> (<cidr>)" is kept as msg, ofPath, ofCIDR
FieldErr(type, path, value, msg, ofPath, ofCIDR) ==
    [type |-> type, field |-> path, value |-> value, msg |-> msg,
     ofPath |-> ofPath, ofCIDR |-> ofCIDR]

\* field.Required(path, msg)
Required(path, msg) == FieldErr("Required", path, EmptyCIDR, msg, NilPath, EmptyCIDR)

\* field.Invalid(path, value, msg)
Invalid(path, value, msg) == FieldErr("Invalid", path, value, msg, NilPath, EmptyCIDR)

\* field.Invalid(path, value, fmt.Sprintf("<msg> %q (%q)", of.fieldPath, of.cidr))
InvalidOf(path, value, msg, ofPath, ofCIDR) ==
    FieldErr("Invalid", path, value, msg, ofPath, ofCIDR)

---------------------------------------------------------------------------
(* package cidrvalidation *)

\* a nil CIDR interface value
NilCIDR ==
    [isNil |-> TRUE, id |-> [obj |-> "nil", idx |-> 0], cidr |-> EmptyCIDR, fieldPath |-> NilPath,
     parsed |-> FALSE, net |-> EmptyCIDR]

\* NewCIDR(c, f): a fresh *cidrPath; id is the identity of the allocated object
NewCIDR(c, f, id) ==
    [isNil |-> FALSE, id |-> id, cidr |-> c, fieldPath |-> f,
     parsed |-> ParseOK(c), net |-> ParseNet(c)]

\* the operands ValidateSubset / ValidateNotSubset look at
Comparable(c, subset) == ~subset.isNil /\ subset.id # c.id /\ subset.parsed

RECURSIVE ValidateSubsetFrom(_, _, _)
ValidateSubsetFrom(c, subsets, j) ==
    IF j > Len(subsets) THEN <<>>
    ELSE (IF Comparable(c, subsets[j]) /\ ~Contains(c.net, subsets[j].net.ip)
          THEN <<InvalidOf(subsets[j].fieldPath, subsets[j].cidr, "must be a subset of",
                           c.fieldPath, c.cidr)>>
          ELSE <<>>)
         \o ValidateSubsetFrom(c, subsets, j + 1)

\* c.ValidateSubset(subsets...)
ValidateSubset(c, subsets) ==
    IF ~c.parsed THEN <<>> ELSE ValidateSubsetFrom(c, subsets, 1)

RECURSIVE ValidateNotSubsetFrom(_, _, _)
ValidateNotSubsetFrom(c, subsets, j) ==
    IF j > Len(subsets) THEN <<>>
    ELSE (IF Comparable(c, subsets[j]) /\ Contains(c.net, subsets[j].net.ip)
          THEN <<InvalidOf(subsets[j].fieldPath, subsets[j].cidr, "must not be a subset of",
                           c.fieldPath, c.cidr)>>
          ELSE <<>>)
         \o ValidateNotSubsetFrom(c, subsets, j + 1)

\* c.ValidateNotSubset(subsets...)
ValidateNotSubset(c, subsets) ==
    IF ~c.parsed THEN <<>> ELSE ValidateNotSubsetFrom(c, subsets, 1)

\* c.ValidateParse()
ValidateParse(c) ==
    IF c.parsed THEN <<>> ELSE <<Invalid(c.fieldPath, c.cidr, "invalid CIDR address")>>

RECURSIVE ValidateCIDRParseFrom(_, _)
ValidateCIDRParseFrom(cidrPaths, j) ==
    IF j > Len(cidrPaths) THEN <<>>
    ELSE (IF cidrPaths[j].isNil THEN <<>> ELSE ValidateParse(cidrPaths[j]))
         \o ValidateCIDRParseFrom(cidrPaths, j + 1)

\* ValidateCIDRParse(cidrPaths...)
ValidateCIDRParse(cidrPaths) == ValidateCIDRParseFrom(cidrPaths, 1)

RECURSIVE ValidateCIDROverlapFrom(_, _, _, _)
ValidateCIDROverlapFrom(leftPaths, rightPaths, overlap, j) ==
    IF j > Len(leftPaths) THEN <<>>
    ELSE (IF leftPaths[j].isNil THEN <<>>
          ELSE IF overlap THEN ValidateSubset(leftPaths[j], rightPaths)
          ELSE ValidateNotSubset(leftPaths[j], rightPaths))
         \o ValidateCIDROverlapFrom(leftPaths, rightPaths, overlap, j + 1)

\* ValidateCIDROverlap(leftPaths, rightPaths, overlap)
ValidateCIDROverlap(leftPaths, rightPaths, overlap) ==
    ValidateCIDROverlapFrom(leftPaths, rightPaths, overlap, 1)

\* ValidateCIDRIsCanonical(fldPath, cidrToValidate)
ValidateCIDRIsCanonical(fldPath, c) ==
    IF c = EmptyCIDR \/ ~ParseOK(c) THEN <<>>
    ELSE IF ParseNet(c).ip # c.ip
         THEN <<Invalid(fldPath, c, "must be valid canonical CIDR")>>
         ELSE <<>>

---------------------------------------------------------------------------
(* apisaws.InfrastructureConfig: Networks{VPC{ID, CIDR *string}, Zones []Zone} *)

\* a nil *string
NilStr == [set |-> FALSE, val |-> ""]

StrPtr(v) == [set |-> TRUE, val |-> v]

\* a nil *string holding a CIDR
NilCIDRStr == [set |-> FALSE, val |-> EmptyCIDR]

CIDRPtr(c) == [set |-> TRUE, val |-> c]

Zone(internal, public, workers) ==
    [internal |-> internal, public |-> public, workers |-> workers]

VPC(id, cidr) == [id |-> id, cidr |-> cidr]

Networks(vpc, zones) == [vpc |-> vpc, zones |-> zones]

InfrastructureConfig(networks) == [networks |-> networks]

\* no old object in the request
NoInfra == [set |-> FALSE, val |-> InfrastructureConfig(Networks(VPC(NilStr, NilCIDRStr), <<>>))]

SomeInfra(cfg) == [set |-> TRUE, val |-> cfg]

---------------------------------------------------------------------------
(* validation.ValidateInfrastructureConfig *)

\* identities of the *cidrPath objects one call allocates
NodesId == [obj |-> "nodes", idx |-> 0]

PodsId == [obj |-> "pods", idx |-> 0]

ServicesId == [obj |-> "services", idx |-> 0]

VpcId == [obj |-> "vpcCIDR", idx |-> 0]

CidrsId(j) == [obj |-> "cidrs", idx |-> j]

WorkerCIDRsId(i) == [obj |-> "workerCIDRs", idx |-> i]

ZoneField(zone, k) ==
    IF k = 1 THEN zone.internal ELSE IF k = 2 THEN zone.public ELSE zone.workers

\* nodes, pods, services: the CIDRs of the shoot's networking section
NodesCIDR(nodesStr) == NewCIDR(nodesStr, NilPath, NodesId)

PodsCIDR(podsStr) ==
    IF podsStr.set THEN NewCIDR(podsStr.val, NilPath, PodsId) ELSE NilCIDR

ServicesCIDR(servicesStr) ==
    IF servicesStr.set THEN NewCIDR(servicesStr.val, NilPath, ServicesId) ELSE NilCIDR

\* the zero-zones check
ZonesRequiredErrs(cfg) ==
    IF Len(cfg.networks.zones) = 0
    THEN <<Required(zonesPath, "must specify at least the networks for one zone")>>
    ELSE <<>>

\* ZoneCanonicalErrs with the canonical-form check of the public CIDR left out
ZoneCanonicalErrs_PublicUnchecked(zone, i) ==
    ValidateCIDRIsCanonical(ZonePath(i, "internal"), zone.internal)
    \o ValidateCIDRIsCanonical(ZonePath(i, "workers"), zone.workers)

\* the canonical-form errors one iteration of the zone loop appends
ZoneCanonicalErrs(zone, i) ==
    ValidateCIDRIsCanonical(ZonePath(i, "internal"), zone.internal)
    \o ValidateCIDRIsCanonical(ZonePath(i, "public"), zone.public)
    \o ValidateCIDRIsCanonical(ZonePath(i, "workers"), zone.workers)

RECURSIVE ZonesCanonicalErrsFrom(_, _)
ZonesCanonicalErrsFrom(zones, i) ==
    IF i > Len(zones) THEN <<>>
    ELSE ZoneCanonicalErrs(zones[i], i) \o ZonesCanonicalErrsFrom(zones, i + 1)

\* the canonical-form errors of the whole zone loop
ZonesCanonicalErrs(cfg) == ZonesCanonicalErrsFrom(cfg.networks.zones, 1)

\* the slice cidrs after the zone loop: internal, public, workers of each zone
ZoneCIDRs(cfg) ==
    [j \in 1..(3 * Len(cfg.networks.zones)) |->
        LET i == ((j - 1) \div 3) + 1
            k == ((j - 1) % 3) + 1
        IN  NewCIDR(ZoneField(cfg.networks.zones[i], k), ZonePath(i, Kinds[k]), CidrsId(j))]

\* the slice workerCIDRs after the zone loop
WorkerCIDRs(cfg) ==
    [i \in 1..Len(cfg.networks.zones) |->
        NewCIDR(cfg.networks.zones[i].workers, ZonePath(i, "workers"), WorkerCIDRsId(i))]

\* the parse check of the zone CIDRs
ZonesParseErrs(cfg) == ValidateCIDRParse(ZoneCIDRs(cfg))

\* the check that the node CIDR contains the workers CIDRs
WorkersSubsetErrs(cfg, nodesStr) ==
    IF ~NodesCIDR(nodesStr).isNil
    THEN ValidateSubset(NodesCIDR(nodesStr), WorkerCIDRs(cfg))
    ELSE <<>>

\* VPCErrs whose first condition forgets the case that id and CIDR are both set
VPCErrs_NeitherOnly(cfg, nodesStr, podsStr, servicesStr) ==
    LET vpc == cfg.networks.vpc
    IN  IF ~vpc.id.set /\ ~vpc.cidr.set
        THEN <<Invalid(vpcPath, EmptyCIDR, "must specify either a vpc id or a cidr")>>
        ELSE IF vpc.cidr.set /\ ~vpc.id.set
        THEN LET vpcCIDR == NewCIDR(vpc.cidr.val, vpcCIDRPath, VpcId)
             IN  ValidateCIDRIsCanonical(vpcCIDRPath, vpc.cidr.val)
                 \o ValidateParse(vpcCIDR)
                 \o ValidateSubset(vpcCIDR, <<NodesCIDR(nodesStr)>>)
                 \o ValidateSubset(vpcCIDR, ZoneCIDRs(cfg))
                 \o ValidateNotSubset(vpcCIDR, <<PodsCIDR(podsStr), ServicesCIDR(servicesStr)>>)
        ELSE <<>>

\* VPCErrs that requires the node CIDR not to lie in the VPC CIDR
VPCErrs_NodesNotSubset(cfg, nodesStr, podsStr, servicesStr) ==
    LET vpc == cfg.networks.vpc
    IN  IF (~vpc.id.set /\ ~vpc.cidr.set) \/ (vpc.id.set /\ vpc.cidr.set)
        THEN <<Invalid(vpcPath, EmptyCIDR, "must specify either a vpc id or a cidr")>>
        ELSE IF vpc.cidr.set /\ ~vpc.id.set
        THEN LET vpcCIDR == NewCIDR(vpc.cidr.val, vpcCIDRPath, VpcId)
             IN  ValidateCIDRIsCanonical(vpcCIDRPath, vpc.cidr.val)
                 \o ValidateParse(vpcCIDR)
                 \o ValidateNotSubset(vpcCIDR, <<NodesCIDR(nodesStr)>>)
                 \o ValidateSubset(vpcCIDR, ZoneCIDRs(cfg))
                 \o ValidateNotSubset(vpcCIDR, <<PodsCIDR(podsStr), ServicesCIDR(servicesStr)>>)
        ELSE <<>>

\* VPCErrs that runs the VPC CIDR checks whenever a CIDR is set, an id or not
VPCErrs_CIDRWheneverSet(cfg, nodesStr, podsStr, servicesStr) ==
    LET vpc == cfg.networks.vpc
    IN  (IF (~vpc.id.set /\ ~vpc.cidr.set) \/ (vpc.id.set /\ vpc.cidr.set)
         THEN <<Invalid(vpcPath, EmptyCIDR, "must specify either a vpc id or a cidr")>>
         ELSE <<>>)
        \o (IF vpc.cidr.set
            THEN LET vpcCIDR == NewCIDR(vpc.cidr.val, vpcCIDRPath, VpcId)
                 IN  ValidateCIDRIsCanonical(vpcCIDRPath, vpc.cidr.val)
                     \o ValidateParse(vpcCIDR)
                     \o ValidateSubset(vpcCIDR, <<NodesCIDR(nodesStr)>>)
                     \o ValidateSubset(vpcCIDR, ZoneCIDRs(cfg))
                     \o ValidateNotSubset(vpcCIDR, <<PodsCIDR(podsStr), ServicesCIDR(servicesStr)>>)
            ELSE <<>>)

\* the VPC branch
VPCErrs(cfg, nodesStr, podsStr, servicesStr) ==
    LET vpc == cfg.networks.vpc
    IN  IF (~vpc.id.set /\ ~vpc.cidr.set) \/ (vpc.id.set /\ vpc.cidr.set)
        THEN <<Invalid(vpcPath, EmptyCIDR, "must specify either a vpc id or a cidr")>>
        ELSE IF vpc.cidr.set /\ ~vpc.id.set
        THEN LET vpcCIDR == NewCIDR(vpc.cidr.val, vpcCIDRPath, VpcId)
             IN  ValidateCIDRIsCanonical(vpcCIDRPath, vpc.cidr.val)
                 \o ValidateParse(vpcCIDR)
                 \o ValidateSubset(vpcCIDR, <<NodesCIDR(nodesStr)>>)
                 \o ValidateSubset(vpcCIDR, ZoneCIDRs(cfg))
                 \o ValidateNotSubset(vpcCIDR, <<PodsCIDR(podsStr), ServicesCIDR(servicesStr)>>)
        ELSE <<>>

\* ZoneOverlapErrs that checks the zone CIDRs against the workers CIDRs only
ZoneOverlapErrs_AgainstWorkers(cfg) ==
    ValidateCIDROverlap(ZoneCIDRs(cfg), WorkerCIDRs(cfg), FALSE)

\* the check of the zone CIDRs against each other
ZoneOverlapErrs(cfg) == ValidateCIDROverlap(ZoneCIDRs(cfg), ZoneCIDRs(cfg), FALSE)

\* the check of the pod and service CIDRs against the zone CIDRs
PodsServicesOverlapErrs(cfg, podsStr, servicesStr) ==
    ValidateCIDROverlap(<<PodsCIDR(podsStr), ServicesCIDR(servicesStr)>>, ZoneCIDRs(cfg), FALSE)

\* ValidateInfrastructureConfig that returns right after the zero-zones error
ValidateInfrastructureConfig_ReturnOnNoZones(cfg, nodesStr, podsStr, servicesStr) ==
    IF Len(cfg.networks.zones) = 0 THEN ZonesRequiredErrs(cfg)
    ELSE ZonesCanonicalErrs(cfg)
         \o ZonesParseErrs(cfg)
         \o WorkersSubsetErrs(cfg, nodesStr)
         \o VPCErrs(cfg, nodesStr, podsStr, servicesStr)
         \o ZoneOverlapErrs(cfg)
         \o PodsServicesOverlapErrs(cfg, podsStr, servicesStr)

\* ValidateInfrastructureConfig that runs the zone/zone overlap check before the
\* VPC branch
ValidateInfrastructureConfig_OverlapFirst(cfg, nodesStr, podsStr, servicesStr) ==
    ZonesRequiredErrs(cfg)
    \o ZonesCanonicalErrs(cfg)
    \o ZonesParseErrs(cfg)
    \o WorkersSubsetErrs(cfg, nodesStr)
    \o ZoneOverlapErrs(cfg)
    \o VPCErrs(cfg, nodesStr, podsStr, servicesStr)
    \o PodsServicesOverlapErrs(cfg, podsStr, servicesStr)

ValidateInfrastructureConfig(cfg, nodesStr, podsStr, servicesStr) ==
    ZonesRequiredErrs(cfg)
    \o ZonesCanonicalErrs(cfg)
    \o ZonesParseErrs(cfg)
    \o WorkersSubsetErrs(cfg, nodesStr)
    \o VPCErrs(cfg, nodesStr, podsStr, servicesStr)
    \o ZoneOverlapErrs(cfg)
    \o PodsServicesOverlapErrs(cfg, podsStr, servicesStr)

---------------------------------------------------------------------------
(* validation.ValidateInfrastructureConfigUpdate *)

\* apivalidation.ValidateImmutableField(newVal, oldVal, fldPath)
ValidateImmutableField(newVal, oldVal, fldPath) ==
    IF newVal # oldVal THEN <<Invalid(fldPath, EmptyCIDR, "field is immutable")>> ELSE <<>>

\* ValidateInfrastructureConfigUpdate that holds only the zone list immutable
ValidateInfrastructureConfigUpdate_ZonesOnly(oldConfig, newConfig, nodesStr, podsStr, servicesStr) ==
    ValidateImmutableField(newConfig.networks.zones, oldConfig.networks.zones, networksPath)
    \o ValidateInfrastructureConfig(newConfig, nodesStr, podsStr, servicesStr)

\* ValidateInfrastructureConfigUpdate that returns on an immutability error
ValidateInfrastructureConfigUpdate_ReturnEarly(oldConfig, newConfig, nodesStr, podsStr, servicesStr) ==
    IF ValidateImmutableField(newConfig.networks, oldConfig.networks, networksPath) # <<>>
    THEN ValidateImmutableField(newConfig.networks, oldConfig.networks, networksPath)
    ELSE ValidateInfrastructureConfig(newConfig, nodesStr, podsStr, servicesStr)

ValidateInfrastructureConfigUpdate(oldConfig, newConfig, nodesStr, podsStr, servicesStr) ==
    ValidateImmutableField(newConfig.networks, oldConfig.networks, networksPath)
    \o ValidateInfrastructureConfig(newConfig, nodesStr, podsStr, servicesStr)

---------------------------------------------------------------------------
(* Run-time panics of the validation: a nil pointer dereferenced, a method *)
(* called on a nil interface *)

\* *p of a nil pointer, x.M() of a nil interface
NilDeref(p) == ~p.set

NilCall(c) == c.isNil

\* the dereference *podsCIDR with its guard left out
PodsDerefPanics_Unguarded(podsStr) == NilDeref(podsStr)

\* if podsCIDR != nil { pods = NewCIDR(*podsCIDR, nil) }
PodsDerefPanics(podsStr) == IF podsStr.set THEN NilDeref(podsStr) ELSE FALSE

\* if servicesCIDR != nil { services = NewCIDR(*servicesCIDR, nil) }
ServicesDerefPanics(servicesStr) == IF servicesStr.set THEN NilDeref(servicesStr) ELSE FALSE

\* if nodes != nil { nodes.ValidateSubset(workerCIDRs...) }
NodesCallPanics(nodesStr) ==
    IF ~NodesCIDR(nodesStr).isNil THEN NilCall(NodesCIDR(nodesStr)) ELSE FALSE

\* the VPC branch: *infra.Networks.VPC.CIDR and the methods of vpcCIDR
VPCDerefPanics(cfg) ==
    LET vpc == cfg.networks.vpc
    IN  IF (~vpc.id.set /\ ~vpc.cidr.set) \/ (vpc.id.set /\ vpc.cidr.set) THEN FALSE
        ELSE IF vpc.cidr.set /\ ~vpc.id.set
        THEN NilDeref(vpc.cidr) \/ NilCall(NewCIDR(vpc.cidr.val, vpcCIDRPath, VpcId))
        ELSE FALSE

\* ValidateCIDROverlap calls left.ValidateNotSubset only for left != nil
OverlapCallPanics(leftPaths) ==
    \E j \in 1..Len(leftPaths) :
        IF leftPaths[j].isNil THEN FALSE ELSE NilCall(leftPaths[j])

\* ValidateInfrastructureConfig panics
ValidateInfrastructureConfigPanics(cfg, nodesStr, podsStr, servicesStr) ==
    \/ PodsDerefPanics(podsStr)
    \/ ServicesDerefPanics(servicesStr)
    \/ NodesCallPanics(nodesStr)
    \/ VPCDerefPanics(cfg)
    \/ OverlapCallPanics(ZoneCIDRs(cfg))
    \/ OverlapCallPanics(<<PodsCIDR(podsStr), ServicesCIDR(servicesStr)>>)

\* ValidateInfrastructureConfigUpdate panics: oldConfig.Networks of a nil
\* oldConfig, or the validation of newConfig
ValidateInfrastructureConfigUpdatePanics(oldConfig, newConfig, nodesStr, podsStr, servicesStr) ==
    \/ NilDeref(oldConfig)
    \/ ValidateInfrastructureConfigPanics(newConfig, nodesStr, podsStr, servicesStr)

---------------------------------------------------------------------------
(* The requests a session composes *)

\* zone i of the well-formed request: three disjoint blocks inside the node range
WellFormedZone(i) ==
    Zone(Block(4 * (i - 1), 1), Block(4 * (i - 1) + 1, 1), Block(4 * (i - 1) + 2, 2))

WellFormedZones(n) == [i \in 1..n |-> WellFormedZone(i)]

WellFormedNodes == Block(0, 16)

WellFormedPods == CIDRPtr(Block(18, 2))

WellFormedServices == CIDRPtr(Block(24, 4))

\* the two well-formed VPC descriptors: an id only, a CIDR only
WellFormedVPCs == {VPC(StrPtr("vpc-1"), NilCIDRStr), VPC(NilStr, CIDRPtr(Block(0, 16)))}

\* "3/l" for the two-address block at 2: parses, host bits set
NonCanonical == [Block(2, 2) EXCEPT !.ip = 3]

\* the strings an edit may put into a zone field
ZoneCIDRStrings ==
    {NonCanonical, Unparseable, EmptyCIDR,
     Block(0, 4), Block(0, 32), Block(4, 1), Block(13, 1), Block(16, 4), Block(18, 2)}

NodesCIDRStrings == {WellFormedNodes, Block(0, 2), Block(0, 32), Unparseable}

PodsCIDRStrings ==
    {NilCIDRStr, WellFormedPods, CIDRPtr(Block(0, 8)), CIDRPtr(Block(16, 16)),
     CIDRPtr(Unparseable)}

ServicesCIDRStrings ==
    {NilCIDRStr, WellFormedServices, CIDRPtr(Block(1, 1)), CIDRPtr(Block(16, 16)),
     CIDRPtr(Unparseable)}

VPCIDs == {NilStr, StrPtr("vpc-1")}

VPCCIDRStrings ==
    {NilCIDRStr, CIDRPtr(Block(0, 16)), CIDRPtr(Block(0, 4)), CIDRPtr(Block(16, 16)),
     CIDRPtr([Block(0, 16) EXCEPT !.ip = 1]), CIDRPtr(Unparseable)}

\* the number of fields in which a request differs from the well-formed one
Edits(cfg, nodesStr, podsStr, servicesStr) ==
    Cardinality({<<i, k>> \in (1..Len(cfg.networks.zones)) \X (1..3) :
                    ZoneField(cfg.networks.zones[i], k) # ZoneField(WellFormedZone(i), k)})
    + (IF cfg.networks.vpc \in WellFormedVPCs THEN 0 ELSE 1)
    + (IF nodesStr = WellFormedNodes THEN 0 ELSE 1)
    + (IF podsStr = WellFormedPods THEN 0 ELSE 1)
    + (IF servicesStr = WellFormedServices THEN 0 ELSE 1)

SetField(zone, k, v) ==
    IF k = 1 THEN [zone EXCEPT !.internal = v]
    ELSE IF k = 2 THEN [zone EXCEPT !.public = v]
    ELSE [zone EXCEPT !.workers = v]

\* the old objects an update request is checked against: the new object itself
\* and objects that differ from it in the VPC, in a zone field or in the zone list
OldChoices(new) ==
    LET zones == new.networks.zones
        n     == Len(zones)
    IN  {new,
         [new EXCEPT !.networks.vpc.id = StrPtr("vpc-2")],
         [new EXCEPT !.networks.vpc.cidr = CIDRPtr(Block(8, 8))],
         [new EXCEPT !.networks.zones = Append(zones, WellFormedZone(n + 1))],
         InfrastructureConfig(Networks(new.networks.vpc, WellFormedZones(n)))}
    \cup (IF n = 0 THEN {}
          ELSE {[new EXCEPT !.networks.zones = SubSeq(zones, 1, n - 1)],
                [new EXCEPT !.networks.zones[n] = SetField(zones[n], 2, Block(13, 1))]})

---------------------------------------------------------------------------
(* runtime.Object: the extension objects the webhook is given *)

\* a runtime.RawExtension: nil, bytes that do not decode, or an encoded config
NilRaw == [raw |-> "nil", cfg |-> <<>>]

BadRaw == [raw |-> "undecodable", cfg |-> <<>>]

GoodRaw(cfg) == [raw |-> "encoded", cfg |-> <<cfg>>]

\* a pool of Worker.Spec.Pools: ProviderConfig and Volume (nil, without Type, with Type)
Pool(providerConfig, volume) == [providerConfig |-> providerConfig, volume |-> volume]

\* an extensionsv1alpha1 object: its concrete type, metadata.namespace, spec.type,
\* spec.providerConfig (Infrastructure) and spec.pools (Worker)
Object(type, namespace, specType, providerConfig, pools) ==
    [type |-> type, namespace |-> namespace, specType |-> specType,
     providerConfig |-> providerConfig, pools |-> pools]

\* a nil runtime.Object
NilObject == Object("<nil>", "", "", NilRaw, <<>>)

\* &T{}: the empty object of a type
EmptyObject(type) == Object(type, "", "", NilRaw, <<>>)

\* DeepCopyObject: an equal object that shares nothing with the original
DeepCopyObject(obj) == [f \in DOMAIN obj |-> obj[f]]

---------------------------------------------------------------------------
(* extensionscontroller.Cluster and extensionscontroller.GetCluster *)

\* the namespace whose Cluster resource exists, and one without
ShootNamespace == "shoot--a"

NoClusterNamespace == "shoot--gone"

\* cluster.CoreShoot.Spec.Networking of the cluster that exists
Cluster ==
    [nodes |-> WellFormedNodes, pods |-> WellFormedPods, services |-> WellFormedServices]

\* GetCluster(ctx, client, namespace): err != nil when the Cluster is not found
GetClusterFails(namespace) == namespace # ShootNamespace

---------------------------------------------------------------------------
(* The results of the validators: a field.ErrorList or a panic, an error or nil *)

Returned(errs) == [panic |-> FALSE, errs |-> errs]

Panicked == [panic |-> TRUE, errs |-> <<>>]

\* field.InternalError(nil, err)
InternalError(msg) == FieldErr("InternalError", NilPath, EmptyCIDR, msg, NilPath, EmptyCIDR)

\* a nil error, and the error fmt.Errorf("%+v", allErrs) or errors.Wrapf(err, msg)
NoError == [isNil |-> TRUE, msg |-> "", errs |-> <<>>]

Errorf(msg, errs) == [isNil |-> FALSE, msg |-> msg, errs |-> errs]

---------------------------------------------------------------------------
(* The AWS validator: validator.Validate / ValidateUpdate and what they call *)

\* v.decoder.Decode(raw, nil, into) fails
DecodeFails(raw) == raw.raw # "encoded"

\* infrastructureConfigFrom: the decoded config, or the error list returned instead
infrastructureConfigFrom(infrastructure) ==
    IF infrastructure.providerConfig = NilRaw
    THEN [errs |-> <<Invalid(NilPath, EmptyCIDR, "no infrastructureConfig provided")>>,
          cfg |-> NoInfra]
    ELSE IF DecodeFails(infrastructure.providerConfig)
    THEN [errs |-> <<InternalError("could not decode provider config")>>, cfg |-> NoInfra]
    ELSE [errs |-> <<>>, cfg |-> SomeInfra(infrastructure.providerConfig.cfg[1])]

\* ValidateInfrastructure validates CREATE requests for infrastructures
ValidateInfrastructure(cluster, infrastructure) ==
    LET from == infrastructureConfigFrom(infrastructure)
    IN  IF from.errs # <<>> THEN Returned(from.errs)
        ELSE IF ValidateInfrastructureConfigPanics(from.cfg.val, cluster.nodes, cluster.pods,
                                                   cluster.services)
        THEN Panicked
        ELSE Returned(ValidateInfrastructureConfig(from.cfg.val, cluster.nodes, cluster.pods,
                                                   cluster.services))

\* ValidateInfrastructureUpdate validates UPDATE requests for infrastructures
ValidateInfrastructureUpdate(cluster, oldInfrastructure, newInfrastructure) ==
    LET fromOld == infrastructureConfigFrom(oldInfrastructure)
        fromNew == infrastructureConfigFrom(newInfrastructure)
    IN  IF fromOld.errs # <<>> THEN Returned(fromOld.errs)
        ELSE IF fromNew.errs # <<>> THEN Returned(fromNew.errs)
        ELSE IF ValidateInfrastructureConfigUpdatePanics(fromOld.cfg, fromNew.cfg.val,
                    cluster.nodes, cluster.pods, cluster.services)
        THEN Panicked
        ELSE Returned(ValidateInfrastructureConfigUpdate(fromOld.cfg.val, fromNew.cfg.val,
                          cluster.nodes, cluster.pods, cluster.services))

\* validation.ValidateWorkerConfig(workerConfig, pool.Volume.Type): the errors
\* of the decoded worker config
ValidateWorkerConfig(workerConfig, volumeType) == workerConfig

\* pools[i-1].volume  (i counts from 1 in the model, from 0 in Go)
VolumePath(i) == Path("pools", i - 1, "volume")

VolumeTypePath(i) == Path("pools", i - 1, "volume.type")

\* the pool loop of ValidateWorker from pool i on, allErrs being what the
\* earlier pools appended
RECURSIVE ValidateWorkerFrom(_, _, _)
ValidateWorkerFrom(pools, i, errs) ==
    IF i > Len(pools) THEN errs
    ELSE LET pool == pools[i]
         IN  IF pool.providerConfig = NilRaw
             THEN ValidateWorkerFrom(pools, i + 1, errs)
             ELSE IF pool.volume = "nil"
             THEN Append(errs, Required(VolumePath(i), "volume is required"))
             ELSE IF pool.volume = "notype"
             THEN Append(errs, Required(VolumeTypePath(i), "volume type is required"))
             ELSE IF DecodeFails(pool.providerConfig)
             THEN <<InternalError("could not decode provider config")>>
             ELSE ValidateWorkerFrom(pools, i + 1,
                      errs \o ValidateWorkerConfig(pool.providerConfig.cfg[1], pool.volume))

\* ValidateWorker validates CREATE requests for workers
ValidateWorker(cluster, obj) ==
    IF obj.type # "Worker"
    THEN Returned(<<InternalError("expected extensionsv1alpha1.Worker but got something else")>>)
    ELSE Returned(ValidateWorkerFrom(obj.pools, 1, <<>>))

\* validator.Validate validates CREATE requests
ProviderValidate(cluster, obj) ==
    IF obj.type = "Infrastructure" THEN ValidateInfrastructure(cluster, obj)
    ELSE IF obj.type = "Worker" THEN ValidateWorker(cluster, obj)
    ELSE Returned(<<>>)

\* ValidateWorkerUpdate that validates the old worker as well
ValidateWorkerUpdate_OldToo(cluster, oldObj, newObj) ==
    Returned(ProviderValidate(cluster, oldObj).errs \o ProviderValidate(cluster, newObj).errs)

\* ValidateWorkerUpdate validates UPDATE requests for workers
ValidateWorkerUpdate(cluster, oldObj, newObj) == ProviderValidate(cluster, newObj)

\* validator.ValidateUpdate validates UPDATE requests; the type assertions
\* oldObj.(*T) are unchecked and panic on an old object of another type
ProviderValidateUpdate(cluster, oldObj, newObj) ==
    IF newObj.type = "Infrastructure"
    THEN IF oldObj.type # "Infrastructure" THEN Panicked
         ELSE ValidateInfrastructureUpdate(cluster, oldObj, newObj)
    ELSE IF newObj.type = "Worker"
    THEN IF oldObj.type # "Worker" THEN Panicked
         ELSE ValidateWorkerUpdate(cluster, oldObj, newObj)
    ELSE Returned(<<>>)

---------------------------------------------------------------------------
(* genericvalidator: validator.Validate *)

specTypePath == Path("spec.type", -1, "")

\* extensionsvalidation.ValidateInfrastructure, ValidateWorker, ...: the generic
\* validation of an extension object (spec.type is required)
ExtensionsValidate(x) ==
    IF x.specType = "" THEN <<Required(specTypePath, "field is required")>> ELSE <<>>

\* extensionsvalidation.ValidateInfrastructureUpdate, ValidateWorkerUpdate, ...
\* (spec.type is immutable)
ExtensionsValidateUpdate(x, y) ==
    ValidateImmutableField(x.specType, y.specType, specTypePath) \o ExtensionsValidate(x)

\* the type switch: the generic errors, none when oldObj has another type than newObj
GenericErrs(oldObj, newObj) ==
    IF newObj.type \notin {"Infrastructure", "Worker", "Network"} THEN <<>>
    ELSE IF oldObj = NilObject THEN ExtensionsValidate(newObj)
    ELSE IF oldObj.type = newObj.type THEN ExtensionsValidateUpdate(newObj, oldObj)
    ELSE <<>>

\* the call of the provider validator: Validate without, ValidateUpdate with an old object
ProviderErrs(cluster, oldObj, newObj) ==
    IF oldObj = NilObject THEN ProviderValidate(cluster, newObj)
    ELSE ProviderValidateUpdate(cluster, oldObj, newObj)

\* the result of a call: the error returned (or a panic), allErrs and the
\* path (create or update) the provider validation took
Outcome(panic, err, errs, path) == [panic |-> panic, err |-> err, errs |-> errs, path |-> path]

\* GenericValidate that takes the create path when there is an old object
GenericValidate_PathsSwapped(oldObj, newObj) ==
    IF newObj = NilObject
    THEN Outcome(FALSE, Errorf("could not create accessor during webhook", <<>>), <<>>, "none")
    ELSE IF GetClusterFails(newObj.namespace)
    THEN Outcome(FALSE, Errorf("could not get cluster for namespace", <<>>), <<>>, "none")
    ELSE LET provider == ProviderValidate(Cluster, newObj)
             errs == GenericErrs(oldObj, newObj) \o provider.errs
         IN  IF provider.panic THEN Outcome(TRUE, NoError, <<>>, "create")
             ELSE Outcome(FALSE,
                          IF Len(errs) > 0 THEN Errorf("%+v", errs) ELSE NoError,
                          errs, "create")

\* validator.Validate(ctx, oldObj, newObj) of package genericvalidator
GenericValidate(oldObj, newObj) ==
    IF newObj = NilObject
    THEN Outcome(FALSE, Errorf("could not create accessor during webhook", <<>>), <<>>, "none")
    ELSE IF GetClusterFails(newObj.namespace)
    THEN Outcome(FALSE, Errorf("could not get cluster for namespace", <<>>), <<>>, "none")
    ELSE LET provider == ProviderErrs(Cluster, oldObj, newObj)
             errs == GenericErrs(oldObj, newObj) \o provider.errs
             path == IF oldObj = NilObject THEN "create" ELSE "update"
         IN  IF provider.panic THEN Outcome(TRUE, NoError, <<>>, path)
             ELSE Outcome(FALSE,
                          IF Len(errs) > 0 THEN Errorf("%+v", errs) ELSE NoError,
                          errs, path)

---------------------------------------------------------------------------
(* The webhook handler: handler.Handle and handle *)

\* the fields of an object a JSON document may set
FieldNames == {"namespace", "specType", "providerConfig", "pools"}

\* a runtime.RawExtension of an admission request: nil, bytes that are no JSON
\* document, or a document that sets the fields `has` to those of `obj`; a
\* document with "kind" in `has` states the kind of its object (the API server
\* may leave it out of the embedded objects)
NoRawObject == [present |-> FALSE, wellformed |-> FALSE, has |-> {}, obj |-> NilObject]

MalformedRawObject == [present |-> TRUE, wellformed |-> FALSE, has |-> {}, obj |-> NilObject]

RawObject(has, obj) == [present |-> TRUE, wellformed |-> TRUE, has |-> has, obj |-> obj]

\* an admission.Request: ar.Kind, req.OldObject, req.Object
Request(kind, oldRaw, newRaw) == [kind |-> kind, oldRaw |-> oldRaw, newRaw |-> newRaw]

\* decoder.DecodeRaw(rawObj, into): fails without content, on bytes that do
\* not parse and on a document that states another kind than that of `into`;
\* otherwise the fields of the document are written into `into`, and the
\* fields it does not mention stay as `into` has them (the concrete type of
\* `into` is never changed)
DecodeRaw(rawObj, into) ==
    IF ~rawObj.present \/ ~rawObj.wellformed
       \/ ("kind" \in rawObj.has /\ rawObj.obj.type # into.type)
    THEN [fails |-> TRUE, obj |-> into]
    ELSE [fails |-> FALSE,
          obj |-> [f \in DOMAIN into |->
                      IF f \in rawObj.has THEN rawObj.obj[f] ELSE into[f]]]

\* admission.Errored(code, err) and admission.ValidationResponse(true, "")
Errored(code, err) == [allowed |-> FALSE, code |-> code, err |-> err]

ValidationResponse == [allowed |-> TRUE, code |-> 200, err |-> NoError]

NoResponse == [allowed |-> FALSE, code |-> 0, err |-> NoError]

\* the types AddToManagerWithOptions registers: typesMap, keyed by kind
RegisteredTypes ==
    [kind \in {"Infrastructure", "Worker"} |-> EmptyObject(kind)]

\* one invocation of handle: the request, where it stands, its local
\* variables, what the validator returned and the response
NewCall(req) ==
    [req |-> req, pc |-> "lookup",
     objOld |-> NilObject, oldObj |-> NilObject, objNew |-> NilObject, newObj |-> NilObject,
     errs |-> <<>>, path |-> "none", resp |-> NoResponse]

\* t, ok := typesMap[ar.Kind]; objNew = t.DeepCopyObject()
lookupType(call, types) ==
    IF call.req.kind \notin DOMAIN types
    THEN [call EXCEPT !.resp = Errored(400, Errorf("unexpected request kind", <<>>)),
                      !.pc = "done"]
    ELSE [call EXCEPT !.objNew = DeepCopyObject(types[call.req.kind]), !.pc = "decodeOld"]

\* decodeOldObject that decodes the old object into an empty object of the
\* type its document is of, not into a copy of t
decodeOldObject_TypeOfDocument(call, types) ==
    IF ~call.req.oldRaw.present THEN [call EXCEPT !.pc = "decodeNew"]
    ELSE LET decoded == DecodeRaw(call.req.oldRaw, EmptyObject(call.req.oldRaw.obj.type))
         IN  IF decoded.fails
             THEN [call EXCEPT !.resp = Errored(400, Errorf("could not decode old obj", <<>>)),
                               !.pc = "done"]
             ELSE [call EXCEPT !.objOld = decoded.obj,
                               !.oldObj = DeepCopyObject(decoded.obj),
                               !.pc = "decodeNew"]

\* if req.OldObject.Raw != nil: decode it into a copy of t; oldObj is a copy of that
decodeOldObject(call, types) ==
    IF ~call.req.oldRaw.present THEN [call EXCEPT !.pc = "decodeNew"]
    ELSE LET decoded == DecodeRaw(call.req.oldRaw, DeepCopyObject(types[call.req.kind]))
         IN  IF decoded.fails
             THEN [call EXCEPT !.resp = Errored(400, Errorf("could not decode old obj", <<>>)),
                               !.pc = "done"]
             ELSE [call EXCEPT !.objOld = decoded.obj,
                               !.oldObj = DeepCopyObject(decoded.obj),
                               !.pc = "decodeNew"]

\* decode req.Object into objNew; newObj is a copy of that
decodeNewObject(call) ==
    LET decoded == DecodeRaw(call.req.newRaw, call.objNew)
    IN  IF decoded.fails
        THEN [call EXCEPT !.resp = Errored(400, Errorf("could not decode new obj", <<>>)),
                          !.pc = "done"]
        ELSE [call EXCEPT !.objNew = decoded.obj,
                          !.newObj = DeepCopyObject(decoded.obj),
                          !.pc = "handle"]

\* f(ctx, oldObj, newObj, r), i.e. h.validator.Validate, and the response
handleResource(call) ==
    LET out == GenericValidate(call.oldObj, call.newObj)
    IN  IF out.panic THEN [call EXCEPT !.path = out.path, !.pc = "panicked"]
        ELSE IF ~out.err.isNil
        THEN [call EXCEPT !.errs = out.errs, !.path = out.path,
                          !.resp = Errored(400, Errorf("could not validate", out.err.errs)),
                          !.pc = "done"]
        ELSE [call EXCEPT !.errs = out.errs, !.path = out.path,
                          !.resp = ValidationResponse, !.pc = "done"]

\* handle run from the first to the last statement with no other invocation
\* in between
handle(req) ==
    LET c1 == lookupType(NewCall(req), RegisteredTypes)
        c2 == IF c1.pc = "decodeOld" THEN decodeOldObject(c1, RegisteredTypes) ELSE c1
        c3 == IF c2.pc = "decodeNew" THEN decodeNewObject(c2) ELSE c2
    IN  IF c3.pc = "handle" THEN handleResource(c3) ELSE c3

---------------------------------------------------------------------------
(* The admission session *)

Init ==
    /\ pc = "compose"
    /\ \E n \in 0..MaxZones, vpc \in WellFormedVPCs :
          infra = InfrastructureConfig(Networks(vpc, WellFormedZones(n)))
    /\ oldInfra = NoInfra
    /\ nodesCIDR = WellFormedNodes
    /\ podsCIDR = WellFormedPods
    /\ servicesCIDR = WellFormedServices
    /\ allErrs = <<>>
    /\ typesMap = RegisteredTypes
    /\ calls = <<>>

\* the client changes one CIDR of one zone
SetZoneCIDR ==
    /\ pc = "compose"
    /\ \E i \in 1..Len(infra.networks.zones), k \in 1..3, v \in ZoneCIDRStrings :
          /\ infra' = [infra EXCEPT !.networks.zones[i] = SetField(@, k, v)]
          /\ Edits(infra', nodesCIDR, podsCIDR, servicesCIDR) <= MaxEdits
    /\ UNCHANGED <<oldInfra, nodesCIDR, podsCIDR, servicesCIDR, allErrs, pc>>
    /\ UNCHANGED webhookVars

\* the client changes the VPC descriptor
SetVPC ==
    /\ pc = "compose"
    /\ \E id \in VPCIDs, cidr \in VPCCIDRStrings :
          /\ infra' = [infra EXCEPT !.networks.vpc = VPC(id, cidr)]
          /\ Edits(infra', nodesCIDR, podsCIDR, servicesCIDR) <= MaxEdits
    /\ UNCHANGED <<oldInfra, nodesCIDR, podsCIDR, servicesCIDR, allErrs, pc>>
    /\ UNCHANGED webhookVars

\* the shoot's networking.nodes / pods / services differ
SetNodes ==
    /\ pc = "compose"
    /\ \E v \in NodesCIDRStrings :
          /\ nodesCIDR' = v
          /\ Edits(infra, v, podsCIDR, servicesCIDR) <= MaxEdits
    /\ UNCHANGED <<infra, oldInfra, podsCIDR, servicesCIDR, allErrs, pc>>
    /\ UNCHANGED webhookVars

SetPods ==
    /\ pc = "compose"
    /\ \E v \in PodsCIDRStrings :
          /\ podsCIDR' = v
          /\ Edits(infra, nodesCIDR, v, servicesCIDR) <= MaxEdits
    /\ UNCHANGED <<infra, oldInfra, nodesCIDR, servicesCIDR, allErrs, pc>>
    /\ UNCHANGED webhookVars

SetServices ==
    /\ pc = "compose"
    /\ \E v \in ServicesCIDRStrings :
          /\ servicesCIDR' = v
          /\ Edits(infra, nodesCIDR, podsCIDR, v) <= MaxEdits
    /\ UNCHANGED <<infra, oldInfra, nodesCIDR, podsCIDR, allErrs, pc>>
    /\ UNCHANGED webhookVars

\* Validate that writes the parsed (masked) zone CIDRs back into the configuration
Validate_Canonicalising ==
    /\ pc = "compose"
    /\ allErrs' = ValidateInfrastructureConfig(infra, nodesCIDR, podsCIDR, servicesCIDR)
    /\ pc' = "created"
    /\ infra' = [infra EXCEPT !.networks.zones =
                    [i \in 1..Len(infra.networks.zones) |->
                        [k \in {"internal", "public", "workers"} |->
                            IF ParseOK(infra.networks.zones[i][k])
                            THEN ParseNet(infra.networks.zones[i][k])
                            ELSE infra.networks.zones[i][k]]]]
    /\ UNCHANGED <<oldInfra, nodesCIDR, podsCIDR, servicesCIDR>>
    /\ UNCHANGED webhookVars

\* a CREATE request: ValidateInfrastructureConfig
Validate ==
    /\ pc = "compose"
    /\ IF ValidateInfrastructureConfigPanics(infra, nodesCIDR, podsCIDR, servicesCIDR)
       THEN allErrs' = <<>> /\ pc' = "panicked"
       ELSE /\ allErrs' = ValidateInfrastructureConfig(infra, nodesCIDR, podsCIDR,
                                                       servicesCIDR)
            /\ pc' = "created"
    /\ UNCHANGED <<infra, oldInfra, nodesCIDR, podsCIDR, servicesCIDR>>
    /\ UNCHANGED webhookVars

\* the same CREATE request once more: ValidateInfrastructureConfig is called again
\* on the configuration the first call was given
Revalidate ==
    /\ pc = "created"
    /\ allErrs' = ValidateInfrastructureConfig(infra, nodesCIDR, podsCIDR, servicesCIDR)
    /\ pc' = "revalidated"
    /\ UNCHANGED <<infra, oldInfra, nodesCIDR, podsCIDR, servicesCIDR>>
    /\ UNCHANGED webhookVars

\* an UPDATE request: ValidateInfrastructureConfigUpdate
ValidateUpdate ==
    /\ pc = "compose"
    /\ \E old \in OldChoices(infra) :
          /\ oldInfra' = SomeInfra(old)
          /\ IF ValidateInfrastructureConfigUpdatePanics(SomeInfra(old), infra, nodesCIDR,
                                                         podsCIDR, servicesCIDR)
             THEN allErrs' = <<>> /\ pc' = "panicked"
             ELSE /\ allErrs' = ValidateInfrastructureConfigUpdate(old, infra, nodesCIDR,
                                                                   podsCIDR, servicesCIDR)
                  /\ pc' = "updated"
    /\ UNCHANGED <<infra, nodesCIDR, podsCIDR, servicesCIDR>>
    /\ UNCHANGED webhookVars

Next ==
    \/ SetZoneCIDR
    \/ SetVPC
    \/ SetNodes
    \/ SetPods
    \/ SetServices
    \/ Validate
    \/ Revalidate
    \/ ValidateUpdate

Spec == Init /\ [][Next]_vars

---------------------------------------------------------------------------
(* The webhook at work *)

\* the provider configs of the Infrastructure objects: a valid configuration,
\* one without zones, one whose VPC has both id and CIDR
ValidConfig ==
    InfrastructureConfig(Networks(VPC(StrPtr("vpc-1"), NilCIDRStr), WellFormedZones(1)))

NoZonesConfig ==
    InfrastructureConfig(Networks(VPC(StrPtr("vpc-1"), NilCIDRStr), <<>>))

BothVPCConfig ==
    InfrastructureConfig(Networks(VPC(StrPtr("vpc-1"), CIDRPtr(Block(0, 16))),
                                  WellFormedZones(1)))

PayloadConfigs == {ValidConfig, NoZonesConfig, BothVPCConfig}

\* the error ValidateWorkerConfig finds in a worker config
WorkerConfigErr == Invalid(Path("volume.iops", -1, ""), EmptyCIDR, "iops must be provided")

\* the pools of the Worker objects
PoolVariants ==
    {Pool(NilRaw, "typed"), Pool(GoodRaw(<<>>), "nil"), Pool(GoodRaw(<<>>), "notype"),
     Pool(BadRaw, "typed"), Pool(GoodRaw(<<>>), "typed"),
     Pool(GoodRaw(<<WorkerConfigErr>>), "typed")}

PoolLists == UNION {[1..n -> PoolVariants] : n \in 0..MaxPools}

\* the documents of Infrastructure objects: with or without spec.providerConfig
InfrastructureRaws ==
    {RawObject(has, Object("Infrastructure", ns, st, pc_, <<>>)) :
        has \in {FieldNames, FieldNames \ {"providerConfig"}},
        ns \in {ShootNamespace},
        st \in {"aws", ""},
        pc_ \in {BadRaw} \cup {GoodRaw(cfg) : cfg \in PayloadConfigs}}
    \cup {RawObject(FieldNames, Object("Infrastructure", NoClusterNamespace, "aws",
                                        GoodRaw(ValidConfig), <<>>)),
          MalformedRawObject}

\* the documents of Worker objects
WorkerRaws ==
    {RawObject(FieldNames, Object("Worker", ShootNamespace, "aws", NilRaw, pools)) :
        pools \in PoolLists}

\* requests whose old object is a document of another kind than the request
\* names, the document stating its kind or not
MismatchedRequests ==
    LET workerObj == Object("Worker", ShootNamespace, "aws", NilRaw,
                            <<Pool(GoodRaw(<<>>), "typed")>>)
        infraObj == Object("Infrastructure", ShootNamespace, "aws", GoodRaw(ValidConfig), <<>>)
    IN  {Request("Infrastructure", RawObject(has, workerObj), RawObject(FieldNames, infraObj)) :
            has \in {FieldNames, FieldNames \cup {"kind"}}}
        \cup {Request("Worker", RawObject(has, infraObj), RawObject(FieldNames, workerObj)) :
                has \in {FieldNames, FieldNames \cup {"kind"}}}

\* the admission requests: CREATE (no old object) and UPDATE of Infrastructure
\* and Worker objects, and a request for a kind that is not registered
Requests ==
    MismatchedRequests \cup
    {Request("Infrastructure", old, new) :
        old \in {NoRawObject} \cup InfrastructureRaws, new \in InfrastructureRaws}
    \cup {Request("Worker", old, new) :
            old \in {NoRawObject,
                     RawObject(FieldNames, Object("Worker", ShootNamespace, "aws", NilRaw, <<>>))},
            new \in WorkerRaws}
    \cup {Request("Network", NoRawObject,
                  RawObject(FieldNames, Object("Network", ShootNamespace, "aws", NilRaw, <<>>)))}

\* the requests that are handled at the same time
ConcurrentRequests ==
    {Request("Infrastructure", NoRawObject,
             RawObject(FieldNames, Object("Infrastructure", ShootNamespace, "aws",
                                          GoodRaw(ValidConfig), <<>>))),
     Request("Infrastructure", NoRawObject,
             RawObject(FieldNames \ {"providerConfig"},
                       Object("Infrastructure", ShootNamespace, "aws", NilRaw, <<>>))),
     Request("Infrastructure",
             RawObject(FieldNames, Object("Infrastructure", ShootNamespace, "aws",
                                          GoodRaw(ValidConfig), <<>>)),
             RawObject(FieldNames \ {"specType"},
                       Object("Infrastructure", ShootNamespace, "", GoodRaw(NoZonesConfig), <<>>))),
     Request("Worker", NoRawObject,
             RawObject(FieldNames, Object("Worker", ShootNamespace, "aws", NilRaw,
                                          <<Pool(GoodRaw(<<WorkerConfigErr>>), "typed")>>))),
     Request("Worker", NoRawObject,
             RawObject(FieldNames \ {"pools"}, Object("Worker", ShootNamespace, "aws", NilRaw, <<>>))),
     Request("Network", NoRawObject, MalformedRawObject)}

\* the admission session is not used while the webhook is looked at
SessionIdle ==
    /\ pc = "idle"
    /\ infra = ValidConfig
    /\ oldInfra = NoInfra
    /\ nodesCIDR = WellFormedNodes
    /\ podsCIDR = WellFormedPods
    /\ servicesCIDR = WellFormedServices
    /\ allErrs = <<>>

\* one admission request arrives
InitWebhook ==
    /\ SessionIdle
    /\ typesMap = RegisteredTypes
    /\ \E req \in Requests : calls = <<NewCall(req)>>

\* MaxCalls admission requests arrive at once
InitConcurrent ==
    /\ SessionIdle
    /\ typesMap = RegisteredTypes
    /\ calls \in [1..MaxCalls -> {NewCall(req) : req \in ConcurrentRequests}]

Lookup(i) ==
    /\ calls[i].pc = "lookup"
    /\ calls' = [calls EXCEPT ![i] = lookupType(calls[i], typesMap)]
    /\ UNCHANGED typesMap
    /\ UNCHANGED sessionVars

DecodeOld(i) ==
    /\ calls[i].pc = "decodeOld"
    /\ calls' = [calls EXCEPT ![i] = decodeOldObject(calls[i], typesMap)]
    /\ UNCHANGED typesMap
    /\ UNCHANGED sessionVars

\* DecodeNew that decodes into the registered object itself, not into a copy of it
DecodeNew_IntoPrototype(i) ==
    /\ calls[i].pc = "decodeNew"
    /\ LET into == [calls[i] EXCEPT !.objNew = typesMap[calls[i].req.kind]]
       IN  /\ calls' = [calls EXCEPT ![i] = decodeNewObject(into)]
           /\ typesMap' = [typesMap EXCEPT ![calls[i].req.kind] = decodeNewObject(into).objNew]
    /\ UNCHANGED sessionVars

DecodeNew(i) ==
    /\ calls[i].pc = "decodeNew"
    /\ calls' = [calls EXCEPT ![i] = decodeNewObject(calls[i])]
    /\ UNCHANGED typesMap
    /\ UNCHANGED sessionVars

HandleResource(i) ==
    /\ calls[i].pc = "handle"
    /\ calls' = [calls EXCEPT ![i] = handleResource(calls[i])]
    /\ UNCHANGED typesMap
    /\ UNCHANGED sessionVars

NextWebhook ==
    \/ \E i \in DOMAIN calls : Lookup(i)
    \/ \E i \in DOMAIN calls : DecodeOld(i)
    \/ \E i \in DOMAIN calls : DecodeNew(i)
    \/ \E i \in DOMAIN calls : HandleResource(i)

\* the objects the validator is called with by a caller other than handle:
\* any extension objects, of whatever concrete types
DirectObjects ==
    {Object("Infrastructure", ShootNamespace, "aws", pc_, <<>>) :
        pc_ \in {NilRaw, BadRaw} \cup {GoodRaw(cfg) : cfg \in PayloadConfigs}}
    \cup {Object("Worker", ShootNamespace, "aws", NilRaw, pools) : pools \in PoolLists}
    \cup {Object("Network", ShootNamespace, "aws", NilRaw, <<>>)}

DirectOldObjects ==
    {NilObject,
     Object("Infrastructure", ShootNamespace, "aws", GoodRaw(ValidConfig), <<>>),
     Object("Infrastructure", ShootNamespace, "aws", BadRaw, <<>>),
     Object("Worker", ShootNamespace, "aws", NilRaw, <<>>),
     Object("Worker", ShootNamespace, "aws", NilRaw,
            <<Pool(GoodRaw(<<WorkerConfigErr>>), "typed")>>),
     Object("Worker", ShootNamespace, "aws", NilRaw, <<Pool(BadRaw, "typed")>>),
     Object("Network", ShootNamespace, "aws", NilRaw, <<>>)}

\* the call v.validator.Validate / ValidateUpdate with its arguments
DirectCall(oldObj, newObj) ==
    [NewCall(Request(newObj.type, NoRawObject, NoRawObject))
        EXCEPT !.pc = "call", !.oldObj = oldObj, !.newObj = newObj]

\* a caller is about to call the AWS validator
InitValidator ==
    /\ SessionIdle
    /\ typesMap = RegisteredTypes
    /\ \E oldObj \in DirectOldObjects, newObj \in DirectObjects :
          calls = <<DirectCall(oldObj, newObj)>>

\* the result of the provider validator as the outcome of the call
Finish(call, result, path) ==
    IF result.panic THEN [call EXCEPT !.path = path, !.pc = "panicked"]
    ELSE [call EXCEPT !.errs = result.errs, !.path = path, !.pc = "returned"]

\* v.validator.Validate(ctx, cluster, newObj)
CallValidate(i) ==
    /\ calls[i].pc = "call"
    /\ calls[i].oldObj = NilObject
    /\ calls' = [calls EXCEPT ![i] =
                    Finish(calls[i], ProviderValidate(Cluster, calls[i].newObj), "create")]
    /\ UNCHANGED typesMap
    /\ UNCHANGED sessionVars

\* v.validator.ValidateUpdate(ctx, cluster, oldObj, newObj)
CallValidateUpdate(i) ==
    /\ calls[i].pc = "call"
    /\ calls[i].oldObj # NilObject
    /\ calls' = [calls EXCEPT ![i] =
                    Finish(calls[i],
                           ProviderValidateUpdate(Cluster, calls[i].oldObj, calls[i].newObj),
                           "update")]
    /\ UNCHANGED typesMap
    /\ UNCHANGED sessionVars

NextValidator ==
    \/ \E i \in DOMAIN calls : CallValidate(i)
    \/ \E i \in DOMAIN calls : CallValidateUpdate(i)

\* the AWS validator called through its interface genericvalidator.Validator
SpecValidator == InitValidator /\ [][NextValidator]_vars

\* one admission request
SpecWebhook == InitWebhook /\ [][NextWebhook]_vars

\* admission requests handled at the same time, in every interleaving of
\* their steps
SpecConcurrent == InitConcurrent /\ [][NextWebhook]_vars

---------------------------------------------------------------------------
(* package csimigration: the predicates on Cluster events *)

\* a version string "major.minor.patch" or "major.minor" (patch = -1: left out)
VersionStr(major, minor, patch) == [major |-> major, minor |-> minor, patch |-> patch]

\* a string that is no version ("", "latest")
BadVersion == VersionStr(-1, -1, -1)

\* semver.NewVersion: fails on a string that is no version; parts left out are 0
NewVersion(v) ==
    IF v.major < 0 THEN [err |-> TRUE, version |-> v]
    ELSE [err |-> FALSE,
          version |-> [v EXCEPT !.patch = IF v.patch < 0 THEN 0 ELSE v.patch]]

\* (*semver.Version).Compare: -1, 0, 1 by major, then minor, then patch
Compare(a, b) ==
    IF a.major # b.major THEN (IF a.major < b.major THEN -1 ELSE 1)
    ELSE IF a.minor # b.minor THEN (IF a.minor < b.minor THEN -1 ELSE 1)
    ELSE IF a.patch # b.patch THEN (IF a.patch < b.patch THEN -1 ELSE 1)
    ELSE 0

\* version.CompareVersions(version1, operator, version2): (bool, error)
CompareVersions(version1, operator, version2) ==
    LET v1 == NewVersion(version1)
        v2 == NewVersion(version2)
    IN  IF v1.err \/ v2.err THEN [err |-> TRUE, constraint |-> FALSE]
        ELSE [err |-> FALSE,
              constraint |-> IF operator = ">=" THEN Compare(v1.version, v2.version) >= 0
                             ELSE IF operator = ">" THEN Compare(v1.version, v2.version) > 0
                             ELSE Compare(v1.version, v2.version) = 0]

\* the gardencorev1beta1.Shoot of a cluster: spec.provider.type, spec.kubernetes.version
Shoot(providerType, kubernetesVersion) ==
    [providerType |-> providerType, kubernetesVersion |-> kubernetesVersion]

NoShoot == Shoot("", BadVersion)

\* cluster.Spec.Shoot.Raw: the JSON of a shoot, or bytes that do not decode
ShootRaw(shoot) == [decodes |-> TRUE, shoot |-> shoot]

BadShootRaw == [decodes |-> FALSE, shoot |-> NoShoot]

\* the objects of an event: an *extensionsv1alpha1.Cluster with its shoot and its
\* annotations (pairs of key and value), an object of another type, nil
ClusterObject(shootRaw, annotations) ==
    [type |-> "Cluster", shootRaw |-> shootRaw, annotations |-> annotations]

OtherObject == [type |-> "Infrastructure", shootRaw |-> BadShootRaw, annotations |-> {}]

NilEventObject == [type |-> "<nil>", shootRaw |-> BadShootRaw, annotations |-> {}]

AnnotationKeyControllerFinished == "csi-migration.extensions.gardener.cloud/controller-finished"

\* metav1.HasAnnotation(obj, ann): the key is there, whatever its value
HasAnnotation(obj, ann) == \E a \in obj.annotations : a[1] = ann

\* extensionscontroller.NewGardenDecoder(): err != nil
NewGardenDecoderFails == FALSE

\* extensionscontroller.ShootFromCluster(decoder, cluster): (shoot, error)
ShootFromCluster(cluster) ==
    IF cluster.shootRaw.decodes THEN [err |-> FALSE, shoot |-> cluster.shootRaw.shoot]
    ELSE [err |-> TRUE, shoot |-> NoShoot]

\* ClusterShootProviderType whose f lets an event through when the shoot cannot
\* be read
ClusterShootProviderType_TrueOnError(providerType, obj) ==
    IF obj = NilEventObject THEN FALSE
    ELSE IF obj.type # "Cluster" THEN FALSE
    ELSE IF NewGardenDecoderFails THEN TRUE
    ELSE IF ShootFromCluster(obj).err THEN TRUE
    ELSE ShootFromCluster(obj).shoot.providerType = providerType

\* the function f of ClusterShootProviderType(providerType)
ClusterShootProviderType(providerType, obj) ==
    IF obj = NilEventObject THEN FALSE
    ELSE IF obj.type # "Cluster" THEN FALSE
    ELSE IF NewGardenDecoderFails THEN FALSE
    ELSE IF ShootFromCluster(obj).err THEN FALSE
    ELSE ShootFromCluster(obj).shoot.providerType = providerType

\* ClusterShootKubernetesVersionAtLeast whose f compares with ">"
ClusterShootKubernetesVersionAtLeast_Greater(kubernetesVersion, obj) ==
    IF obj = NilEventObject THEN FALSE
    ELSE IF obj.type # "Cluster" THEN FALSE
    ELSE IF NewGardenDecoderFails THEN FALSE
    ELSE IF ShootFromCluster(obj).err THEN FALSE
    ELSE LET c == CompareVersions(ShootFromCluster(obj).shoot.kubernetesVersion, ">",
                                  kubernetesVersion)
         IN  IF c.err THEN FALSE ELSE c.constraint

\* the function f of ClusterShootKubernetesVersionAtLeast(kubernetesVersion)
ClusterShootKubernetesVersionAtLeast(kubernetesVersion, obj) ==
    IF obj = NilEventObject THEN FALSE
    ELSE IF obj.type # "Cluster" THEN FALSE
    ELSE IF NewGardenDecoderFails THEN FALSE
    ELSE IF ShootFromCluster(obj).err THEN FALSE
    ELSE LET c == CompareVersions(ShootFromCluster(obj).shoot.kubernetesVersion, ">=",
                                  kubernetesVersion)
         IN  IF c.err THEN FALSE ELSE c.constraint

\* ClusterCSIMigrationControllerFinished whose f looks for the value "true" of
\* the annotation
ClusterCSIMigrationControllerFinished_ValueTrue(obj) ==
    IF obj = NilEventObject THEN FALSE
    ELSE IF obj.type # "Cluster" THEN FALSE
    ELSE <<AnnotationKeyControllerFinished, "true">> \notin obj.annotations

\* the function f of ClusterCSIMigrationControllerFinished()
ClusterCSIMigrationControllerFinished(obj) ==
    IF obj = NilEventObject THEN FALSE
    ELSE IF obj.type # "Cluster" THEN FALSE
    ELSE ~HasAnnotation(obj, AnnotationKeyControllerFinished)

\* a predicate.Predicate made by one of the three constructors
Predicate(name, arg) == [name |-> name, arg |-> arg]

\* the function f a predicate closes over
PredicateF(predicate, obj) ==
    IF predicate.name = "ClusterShootProviderType"
    THEN ClusterShootProviderType(predicate.arg, obj)
    ELSE IF predicate.name = "ClusterShootKubernetesVersionAtLeast"
    THEN ClusterShootKubernetesVersionAtLeast(predicate.arg, obj)
    ELSE ClusterCSIMigrationControllerFinished(obj)

\* event.CreateEvent, DeleteEvent, GenericEvent{Object} and
\* event.UpdateEvent{ObjectOld, ObjectNew}
Event(kind, object) ==
    [kind |-> kind, Object |-> object, ObjectOld |-> NilEventObject,
     ObjectNew |-> NilEventObject]

UpdateEvent(objectOld, objectNew) ==
    [kind |-> "Update", Object |-> NilEventObject, ObjectOld |-> objectOld,
     ObjectNew |-> objectNew]

\* predicate.Funcs: CreateFunc, UpdateFunc, GenericFunc, DeleteFunc
CreateFunc(predicate, event) == PredicateF(predicate, event.Object)

UpdateFunc(predicate, event) == PredicateF(predicate, event.ObjectNew)

GenericFunc(predicate, event) == PredicateF(predicate, event.Object)

DeleteFunc(predicate, event) == PredicateF(predicate, event.Object)

---------------------------------------------------------------------------
(* The predicates at work: the four events of one cluster are filtered *)

ProviderTypes == {"extension-type", "other-extension-type"}

\* 1.17, 1.18, 1.18.0, 1.18.5, 1.19.1, 2.0, and a string that is no version
KubernetesVersions ==
    {VersionStr(1, 17, -1), VersionStr(1, 17, 9), VersionStr(1, 18, -1), VersionStr(1, 18, 0),
     VersionStr(1, 18, 5), VersionStr(1, 19, 1), VersionStr(2, 0, -1), BadVersion}

MinimumVersions == {VersionStr(1, 18, -1), VersionStr(1, 18, 5), BadVersion}

AnnotationSets ==
    {{}, {<<AnnotationKeyControllerFinished, "true">>},
     {<<AnnotationKeyControllerFinished, "false">>},
     {<<"gardener.cloud/operation", "reconcile">>}}

Clusters ==
    {ClusterObject(ShootRaw(Shoot(t, v)), a) :
        t \in ProviderTypes, v \in KubernetesVersions, a \in AnnotationSets}
    \cup {ClusterObject(BadShootRaw, a) : a \in AnnotationSets}

\* the earlier states of a cluster an update event may carry
OldClusters ==
    {ClusterObject(ShootRaw(Shoot("extension-type", VersionStr(1, 18, -1))), {}),
     ClusterObject(ShootRaw(Shoot("other-extension-type", VersionStr(1, 17, -1))),
                   {<<AnnotationKeyControllerFinished, "true">>})}

EventObjects == Clusters \cup {OtherObject, NilEventObject}

Predicates ==
    {Predicate("ClusterShootProviderType", t) : t \in ProviderTypes}
    \cup {Predicate("ClusterShootKubernetesVersionAtLeast", v) : v \in MinimumVersions}
    \cup {Predicate("ClusterCSIMigrationControllerFinished", "")}

\* one delivery of an event to a predicate
Filtering(predicate, event) ==
    [pc |-> "event", predicate |-> predicate, event |-> event, result |-> FALSE]

\* computeEvents: the create, update, delete and generic event of one object
computeEvents(predicate, objectOld, object) ==
    <<Filtering(predicate, Event("Create", object)),
      Filtering(predicate, UpdateEvent(objectOld, object)),
      Filtering(predicate, Event("Delete", object)),
      Filtering(predicate, Event("Generic", object))>>

InitPredicate ==
    /\ SessionIdle
    /\ typesMap = RegisteredTypes
    /\ \E predicate \in Predicates, object \in EventObjects :
          \E objectOld \in (IF object.type = "Cluster" THEN OldClusters \cup {object}
                            ELSE {object}) :
              calls = computeEvents(predicate, objectOld, object)

Filtered(call, result) == [call EXCEPT !.result = result, !.pc = "filtered"]

\* predicate.Create(event)
Create(i) ==
    /\ calls[i].pc = "event"
    /\ calls[i].event.kind = "Create"
    /\ calls' = [calls EXCEPT ![i] = Filtered(@, CreateFunc(calls[i].predicate, calls[i].event))]
    /\ UNCHANGED typesMap
    /\ UNCHANGED sessionVars

\* predicate.Update(event)
Update(i) ==
    /\ calls[i].pc = "event"
    /\ calls[i].event.kind = "Update"
    /\ calls' = [calls EXCEPT ![i] = Filtered(@, UpdateFunc(calls[i].predicate, calls[i].event))]
    /\ UNCHANGED typesMap
    /\ UNCHANGED sessionVars

\* predicate.Delete(event)
Delete(i) ==
    /\ calls[i].pc = "event"
    /\ calls[i].event.kind = "Delete"
    /\ calls' = [calls EXCEPT ![i] = Filtered(@, DeleteFunc(calls[i].predicate, calls[i].event))]
    /\ UNCHANGED typesMap
    /\ UNCHANGED sessionVars

\* predicate.Generic(event)
Generic(i) ==
    /\ calls[i].pc = "event"
    /\ calls[i].event.kind = "Generic"
    /\ calls' = [calls EXCEPT ![i] = Filtered(@, GenericFunc(calls[i].predicate, calls[i].event))]
    /\ UNCHANGED typesMap
    /\ UNCHANGED sessionVars

NextPredicate ==
    \/ \E i \in DOMAIN calls : Create(i)
    \/ \E i \in DOMAIN calls : Update(i)
    \/ \E i \in DOMAIN calls : Delete(i)
    \/ \E i \in DOMAIN calls : Generic(i)

\* the events of a cluster filtered by a predicate
SpecPredicate == InitPredicate /\ [][NextPredicate]_vars

---------------------------------------------------------------------------
(* The glossary's notions, on the address sets themselves *)

\* "Canonical form": the string parses and its host bits are all zero
IsCanonical(c) == ParseOK(c) /\ Mask(c.ip, c.len) = c.ip

\* "Subset": every address of a lies within b (a, b parseable strings)
IsSubset(a, b) == Addresses(ParseNet(a)) \subseteq Addresses(ParseNet(b))

\* "Overlap": the address ranges intersect (a, b parseable strings)
Overlaps(a, b) == Addresses(ParseNet(a)) \cap Addresses(ParseNet(b)) # {}

---------------------------------------------------------------------------
(* Reading the request and the returned list *)

Zones == infra.networks.zones

ZoneIdx == 1..Len(Zones)

\* the zone CIDR entries (zone, kind) of the request
Entries == ZoneIdx \X (1..3)

EntryStr(e) == ZoneField(Zones[e[1]], e[2])

EntryPath(e) == ZonePath(e[1], Kinds[e[2]])

VPCIsCIDROnly == infra.networks.vpc.cidr.set /\ ~infra.networks.vpc.id.set

VPCBothOrNeither == infra.networks.vpc.cidr.set = infra.networks.vpc.id.set

VPCStr == infra.networks.vpc.cidr.val

\* the list ValidateInfrastructureConfig returned
Created == pc = "created"

\* the list ValidateInfrastructureConfigUpdate returned
Updated == pc = "updated"

ErrIdx == 1..Len(allErrs)

HasErr(e) == \E j \in ErrIdx : allErrs[j] = e

CanonicalErr(path, c) == Invalid(path, c, "must be valid canonical CIDR")

ParseErr(path, c) == Invalid(path, c, "invalid CIDR address")

VPCErr == Invalid(vpcPath, EmptyCIDR, "must specify either a vpc id or a cidr")

ZonesRequiredErr == Required(zonesPath, "must specify at least the networks for one zone")

ImmutableErr == Invalid(networksPath, EmptyCIDR, "field is immutable")

\* the errors at `path` that say the CIDR there must be a subset of the node CIDR
NodesSubsetErrsAt(path) ==
    {j \in ErrIdx : /\ allErrs[j].type = "Invalid"
                    /\ allErrs[j].field = path
                    /\ allErrs[j].msg = "must be a subset of"
                    /\ allErrs[j].ofPath = NilPath}

\* the errors about CIDR string c (at `path`) that name the VPC CIDR field
VPCRelationErrs(path, c, msg) ==
    {j \in ErrIdx : /\ allErrs[j].type = "Invalid"
                    /\ allErrs[j].field = path
                    /\ allErrs[j].value = c
                    /\ allErrs[j].msg = msg
                    /\ allErrs[j].ofPath = vpcCIDRPath}

\* the zone/zone overlap errors of a list between the entries at paths p and q
PairOverlapErrs(errs, p, q) ==
    {j \in 1..Len(errs) : /\ errs[j].type = "Invalid"
                          /\ errs[j].msg = "must not be a subset of"
                          /\ \/ errs[j].field = p /\ errs[j].ofPath = q
                             \/ errs[j].field = q /\ errs[j].ofPath = p}

\* all zone/zone overlap errors of a list
AllZoneOverlapErrs(errs) ==
    {j \in 1..Len(errs) : /\ errs[j].type = "Invalid"
                          /\ errs[j].msg = "must not be a subset of"
                          /\ errs[j].ofPath.base = "networks.zones"}

\* the errors at a zone path that say the CIDR overlaps pod/service CIDR c
PodServiceOverlapErrsAt(path, c) ==
    {j \in ErrIdx : /\ allErrs[j].type = "Invalid"
                    /\ allErrs[j].field = path
                    /\ allErrs[j].msg = "must not be a subset of"
                    /\ allErrs[j].ofPath = NilPath
                    /\ allErrs[j].ofCIDR = c}

Bool2Nat(b) == IF b THEN 1 ELSE 0

---------------------------------------------------------------------------
(* C1 *)

\* the seven invariants of the data model, with subset and overlap as in the glossary
Consistent ==
    /\ Len(Zones) >= 1
    /\ \A e \in Entries : IsCanonical(EntryStr(e))
    /\ ParseOK(nodesCIDR) =>
          \A i \in ZoneIdx : ParseOK(Zones[i].workers) => IsSubset(Zones[i].workers, nodesCIDR)
    /\ ~VPCBothOrNeither
    /\ VPCIsCIDROnly =>
          /\ IsCanonical(VPCStr)
          /\ ParseOK(nodesCIDR) => IsSubset(nodesCIDR, VPCStr)
          /\ \A e \in Entries : ParseOK(EntryStr(e)) => IsSubset(EntryStr(e), VPCStr)
          /\ (podsCIDR.set /\ ParseOK(podsCIDR.val)) => ~Overlaps(VPCStr, podsCIDR.val)
          /\ (servicesCIDR.set /\ ParseOK(servicesCIDR.val))
                => ~Overlaps(VPCStr, servicesCIDR.val)
    /\ \A e1, e2 \in Entries :
          (e1 # e2 /\ ParseOK(EntryStr(e1)) /\ ParseOK(EntryStr(e2)))
              => ~Overlaps(EntryStr(e1), EntryStr(e2))
    /\ \A e \in Entries : ParseOK(EntryStr(e)) =>
          /\ (podsCIDR.set /\ ParseOK(podsCIDR.val)) => ~Overlaps(EntryStr(e), podsCIDR.val)
          /\ (servicesCIDR.set /\ ParseOK(servicesCIDR.val))
                => ~Overlaps(EntryStr(e), servicesCIDR.val)

\* C1: ValidateInfrastructureConfig returns the empty list if and only if the
\* configuration satisfies all seven invariants, subset and overlap being those of
\* the glossary.  (Fails: the subset and overlap checks look at the network
\* address of the other CIDR only.)
C1_EmptyIffConsistent == Created => (allErrs = <<>> <=> Consistent)

---------------------------------------------------------------------------
(* C2 *)

\* C2: whenever old.Networks differs from new.Networks, the update validator
\* returns a non-empty list containing the immutability error on path networks,
\* also when new alone passes the create validation.
C2_UpdateImmutable ==
    (Updated /\ oldInfra.val.networks # infra.networks)
        => (allErrs # <<>> /\ HasErr(ImmutableErr))

\* the networks differ, new alone is valid, and the update was validated
C2_Witness ==
    /\ Updated
    /\ oldInfra.val.networks # infra.networks
    /\ ValidateInfrastructureConfig(infra, nodesCIDR, podsCIDR, servicesCIDR) = <<>>
    /\ allErrs = <<ImmutableErr>>

---------------------------------------------------------------------------
(* C3 *)

\* C3: the update validator's list is the immutability error on path networks
\* (present exactly when old.Networks differs from new.Networks) followed by
\* exactly the list the create validation of new returns.
C3_UpdateIsImmutablePlusCreate ==
    Updated =>
        allErrs = (IF oldInfra.val.networks # infra.networks THEN <<ImmutableErr>> ELSE <<>>)
                  \o ValidateInfrastructureConfig(infra, nodesCIDR, podsCIDR, servicesCIDR)

\* an update with differing networks whose new object has create errors too
C3_Witness ==
    /\ Updated
    /\ oldInfra.val.networks # infra.networks
    /\ Len(allErrs) >= 3
    /\ allErrs[1] = ImmutableErr

\* an update with equal networks returning the create validation's non-empty list
C3_WitnessEqual ==
    /\ Updated
    /\ oldInfra.val.networks = infra.networks
    /\ allErrs # <<>>

---------------------------------------------------------------------------
(* C4 *)

\* C4: every check is performed on every call and the list holds an error for
\* every violation present: zero zones, a non-canonical zone CIDR, an unparseable
\* zone CIDR, a workers CIDR that is not a subset of the node CIDR, a VPC
\* descriptor with both or neither field, two intersecting zone CIDRs, a zone
\* CIDR intersecting the pod or service CIDR.  (Fails only through the subset
\* and overlap checks of C7 and C11.)
C4_EveryViolationReported ==
    Created =>
        /\ Len(Zones) = 0 => HasErr(ZonesRequiredErr)
        /\ \A e \in Entries :
              (ParseOK(EntryStr(e)) /\ ~IsCanonical(EntryStr(e)))
                  => HasErr(CanonicalErr(EntryPath(e), EntryStr(e)))
        /\ \A e \in Entries :
              ~ParseOK(EntryStr(e)) => HasErr(ParseErr(EntryPath(e), EntryStr(e)))
        /\ \A i \in ZoneIdx :
              (ParseOK(nodesCIDR) /\ ParseOK(Zones[i].workers)
                  /\ ~IsSubset(Zones[i].workers, nodesCIDR))
                  => NodesSubsetErrsAt(ZonePath(i, "workers")) # {}
        /\ VPCBothOrNeither => HasErr(VPCErr)
        /\ \A e1, e2 \in Entries :
              (e1 # e2 /\ ParseOK(EntryStr(e1)) /\ ParseOK(EntryStr(e2))
                  /\ Overlaps(EntryStr(e1), EntryStr(e2)))
                  => PairOverlapErrs(allErrs, EntryPath(e1), EntryPath(e2)) # {}
        /\ \A e \in Entries : \A c \in {podsCIDR, servicesCIDR} :
              (c.set /\ ParseOK(c.val) /\ ParseOK(EntryStr(e)) /\ Overlaps(EntryStr(e), c.val))
                  => PodServiceOverlapErrsAt(EntryPath(e), c.val) # {}

---------------------------------------------------------------------------
(* C5 *)

\* C5: with zero zones the list holds exactly one Required error on
\* networks.zones, no error carries a zone-indexed path, and validation goes on
\* with the VPC descriptor check (its errors are in the list).
C5_ZeroZones ==
    (Created /\ Len(Zones) = 0) =>
        /\ Cardinality({j \in ErrIdx : allErrs[j] = ZonesRequiredErr}) = 1
        /\ Cardinality({j \in ErrIdx : allErrs[j].type = "Required"}) = 1
        /\ \A j \in ErrIdx : ~(allErrs[j].field.base = "networks.zones" /\ allErrs[j].field.idx >= 0)
        /\ VPCBothOrNeither => HasErr(VPCErr)
        /\ (VPCIsCIDROnly /\ ~ParseOK(VPCStr)) => HasErr(ParseErr(vpcCIDRPath, VPCStr))
        /\ (VPCIsCIDROnly /\ ParseOK(VPCStr) /\ ~IsCanonical(VPCStr))
              => HasErr(CanonicalErr(vpcCIDRPath, VPCStr))

\* zero zones and a VPC descriptor with neither field: both errors are returned
C5_Witness ==
    /\ Created
    /\ Len(Zones) = 0
    /\ ~infra.networks.vpc.id.set /\ ~infra.networks.vpc.cidr.set
    /\ allErrs = <<ZonesRequiredErr, VPCErr>>

---------------------------------------------------------------------------
(* C6 *)

\* C6: with at least one zone, a zone CIDR (any index, any kind) that parses
\* but is not canonical yields an Invalid error at exactly its path
\* networks.zones[i].kind, whatever the other fields are.
C6_NonCanonicalReported ==
    Created =>
        \A e \in Entries :
            (ParseOK(EntryStr(e)) /\ ~IsCanonical(EntryStr(e)))
                => HasErr(CanonicalErr(EntryPath(e), EntryStr(e)))

\* the public CIDR of the second zone is not canonical while another field of
\* the request is off too
C6_Witness ==
    /\ Created
    /\ Len(Zones) = 2
    /\ Zones[2].public = NonCanonical
    /\ Edits(infra, nodesCIDR, podsCIDR, servicesCIDR) >= 2
    /\ HasErr(CanonicalErr(ZonePath(2, "public"), NonCanonical))

---------------------------------------------------------------------------
(* C7 *)

\* C7: when nodesCIDR parses, a zone whose workers CIDR parses gets exactly one
\* Invalid error of the nodes-superset check at networks.zones[i].workers if
\* not every address of the workers CIDR lies in nodesCIDR, and none if it is a
\* subset.  (Fails: a workers CIDR wider than nodesCIDR whose network address
\* lies in nodesCIDR gets no error.)
C7_WorkersSubsetLaw ==
    (Created /\ ParseOK(nodesCIDR)) =>
        \A i \in ZoneIdx :
            ParseOK(Zones[i].workers) =>
                Cardinality(NodesSubsetErrsAt(ZonePath(i, "workers")))
                    = Bool2Nat(~IsSubset(Zones[i].workers, nodesCIDR))

---------------------------------------------------------------------------
(* C8 *)

\* C8: a VPC descriptor with both id and CIDR, or with neither, yields exactly
\* one Invalid error on path networks.vpc; one with exactly one of them yields
\* no error on that path.
C8_VPCDiscriminator ==
    Created =>
        /\ Cardinality({j \in ErrIdx : allErrs[j].field = vpcPath})
              = Bool2Nat(VPCBothOrNeither)
        /\ \A j \in ErrIdx : allErrs[j].field = vpcPath => allErrs[j] = VPCErr

\* id and CIDR both set: the one error on networks.vpc is returned
C8_WitnessBoth ==
    /\ Created
    /\ infra.networks.vpc.id.set /\ infra.networks.vpc.cidr.set
    /\ HasErr(VPCErr)

---------------------------------------------------------------------------
(* C9 *)

\* C9: with a canonical, parseable explicit VPC CIDR, the list holds one
\* Invalid error naming the VPC CIDR field for each failing assertion (the node
\* CIDR is not a subset of the VPC CIDR; a parsed zone CIDR is not a subset of
\* it; it overlaps the pod CIDR; it overlaps the service CIDR) and none for an
\* assertion that holds.  (Fails: only the network address of the other CIDR
\* is tested.)
C9_VPCAssertions ==
    (Created /\ VPCIsCIDROnly /\ IsCanonical(VPCStr)) =>
        /\ ParseOK(nodesCIDR) =>
              Cardinality(VPCRelationErrs(NilPath, nodesCIDR, "must be a subset of"))
                  = Bool2Nat(~IsSubset(nodesCIDR, VPCStr))
        /\ \A e \in Entries :
              ParseOK(EntryStr(e)) =>
                  Cardinality(VPCRelationErrs(EntryPath(e), EntryStr(e), "must be a subset of"))
                      = Bool2Nat(~IsSubset(EntryStr(e), VPCStr))
        /\ \A c \in {podsCIDR, servicesCIDR} :
              (c.set /\ ParseOK(c.val)) =>
                  Cardinality(VPCRelationErrs(NilPath, c.val, "must not be a subset of"))
                      = Bool2Nat(Overlaps(VPCStr, c.val))
                        * Cardinality({d \in {"pods", "services"} :
                                          (IF d = "pods" THEN podsCIDR ELSE servicesCIDR) = c})

---------------------------------------------------------------------------
(* C10 *)

\* the request with its zones listed in the opposite order
ZonesReversed ==
    [infra EXCEPT !.networks.zones = [i \in ZoneIdx |-> Zones[Len(Zones) + 1 - i]]]

---------------------------------------------------------------------------
(* C11 *)

\* C11: for each of the pod CIDR and the service CIDR that is supplied and
\* parses, and every zone CIDR that parses: if the two address ranges
\* intersect (whichever contains the other), the list holds an error at the
\* zone entry about that CIDR; an absent pod or service CIDR yields no error
\* about it.  (Fails: a zone CIDR that contains the pod CIDR from a lower
\* network address gets no error.)
C11_PodServiceOverlapReported ==
    Created =>
        /\ \A e \in Entries : \A c \in {podsCIDR, servicesCIDR} :
              (c.set /\ ParseOK(c.val) /\ ParseOK(EntryStr(e)) /\ Overlaps(EntryStr(e), c.val))
                  => PodServiceOverlapErrsAt(EntryPath(e), c.val) # {}
        /\ (~podsCIDR.set /\ ~servicesCIDR.set) =>
              \A j \in ErrIdx : ~(allErrs[j].msg = "must not be a subset of"
                                  /\ allErrs[j].ofPath = NilPath)

---------------------------------------------------------------------------
(* C12 *)

\* the subset and overlap errors of the list in which the CIDR at `path` takes part
RelationErrsOf(path) ==
    {j \in ErrIdx : /\ allErrs[j].msg \in {"must be a subset of", "must not be a subset of"}
                    /\ (allErrs[j].field = path \/ allErrs[j].ofPath = path)}

\* C12: a zone CIDR (or explicit VPC CIDR) that fails the canonical-form check
\* or the parse check has its own Invalid error in the list and takes part in
\* no subset or overlap error.  (Fails: a CIDR with host bits set is parsed all
\* the same and checked like any other.)
C12_FailedCIDRExcluded ==
    Created =>
        /\ \A e \in Entries :
              (~ParseOK(EntryStr(e)) \/ ~IsCanonical(EntryStr(e))) =>
                  /\ \/ HasErr(CanonicalErr(EntryPath(e), EntryStr(e)))
                     \/ HasErr(ParseErr(EntryPath(e), EntryStr(e)))
                  /\ RelationErrsOf(EntryPath(e)) = {}
        /\ (VPCIsCIDROnly /\ (~ParseOK(VPCStr) \/ ~IsCanonical(VPCStr))) =>
              /\ \/ HasErr(CanonicalErr(vpcCIDRPath, VPCStr))
                 \/ HasErr(ParseErr(vpcCIDRPath, VPCStr))
              /\ RelationErrsOf(vpcCIDRPath) = {}

---------------------------------------------------------------------------
(* C13 *)

\* the check (1..7, in the order of the claim) an error of the list comes from
Group(err) ==
    IF err.type = "Required" THEN 1
    ELSE IF err.field = vpcPath \/ err.field = vpcCIDRPath \/ err.ofPath = vpcCIDRPath THEN 5
    ELSE IF err.msg = "must be valid canonical CIDR" THEN 2
    ELSE IF err.msg = "invalid CIDR address" THEN 3
    ELSE IF err.msg = "must be a subset of" THEN 4
    ELSE IF err.ofPath.base = "networks.zones" THEN 6
    ELSE 7

\* position of a zone path in the order zone index first, then internal, public, workers
EntryRank(path) ==
    3 * path.idx + (CHOOSE k \in 1..3 : Kinds[k] = path.child)

\* C13: the list is in emission order: zero-zones error, canonical-form errors
\* (zone index order; internal, public, workers within a zone), zone parse
\* errors, workers-in-nodes errors, VPC errors, zone/zone overlap errors,
\* pod-service/zone overlap errors; no error of a later check precedes one of
\* an earlier check.
C13_EmissionOrder ==
    Created =>
        \A j, k \in ErrIdx :
            j < k =>
                /\ Group(allErrs[j]) <= Group(allErrs[k])
                /\ (Group(allErrs[j]) = 2 /\ Group(allErrs[k]) = 2)
                      => EntryRank(allErrs[j].field) < EntryRank(allErrs[k].field)

\* a list with errors of at least three different checks, one of them the
\* canonical-form check
C13_Witness ==
    /\ Created
    /\ Cardinality({Group(allErrs[j]) : j \in ErrIdx}) >= 3
    /\ \E j \in ErrIdx : Group(allErrs[j]) = 2

\* a list with two canonical-form errors and errors of a later check
C13_WitnessCanonical ==
    /\ Created
    /\ Cardinality({j \in ErrIdx : Group(allErrs[j]) = 2}) >= 2
    /\ \E j \in ErrIdx : Group(allErrs[j]) > 2

---------------------------------------------------------------------------
(* C14 *)

---------------------------------------------------------------------------
(* C15 *)

\* The end-to-end scenario, scaled to AddrBits: one zone with three disjoint
\* CIDRs inside the VPC CIDR, the VPC CIDR (no id) a proper part of the node
\* CIDR with the same network address (10.0.0.0/16 in 10.0.0.0/8), pod and
\* service CIDRs next to each other and outside the node CIDR
EndToEndScenario ==
    /\ Zones = <<Zone(Block(0, 1), Block(1, 1), Block(2, 2))>>
    /\ nodesCIDR = Block(0, 16)
    /\ infra.networks.vpc = VPC(NilStr, CIDRPtr(Block(0, 4)))
    /\ podsCIDR = CIDRPtr(Block(18, 2))
    /\ servicesCIDR = CIDRPtr(Block(24, 4))

\* C15: the end-to-end scenario yields the empty list
C15_EndToEnd == (Created /\ EndToEndScenario) => allErrs = <<>>

\* the scenario was validated
C15_Witness == Created /\ EndToEndScenario /\ allErrs = <<>>

---------------------------------------------------------------------------
(* C16 *)

\* the returned value is a list of Required / Invalid errors
IsErrorList(errs) ==
    \A j \in 1..Len(errs) : errs[j].type \in {"Required", "Invalid"}

\* the CIDR string at `path` has an Invalid error of its own in the list
ReportedMalformed(path, c) ==
    \E j \in ErrIdx : /\ allErrs[j].type = "Invalid"
                      /\ allErrs[j].field = path
                      /\ allErrs[j].value = c
                      /\ allErrs[j].msg = "invalid CIDR address"

---------------------------------------------------------------------------
(* Reading the calls of the webhook *)

\* the invocations of handle that have answered
Done == {i \in DOMAIN calls : calls[i].pc = "done"}

\* those in which the validators ran (the objects decoded, the cluster was found)
Validated == {i \in Done : calls[i].path # "none"}

\* the provider config of an object decodes
Decodes(obj) == obj.providerConfig.raw = "encoded"

ConfigOf(obj) == obj.providerConfig.cfg[1]

IsPrefix(pre, list) == Len(pre) <= Len(list) /\ SubSeq(list, 1, Len(pre)) = pre

\* an error list holding exactly one InternalError
OneInternalError(errs) == Len(errs) = 1 /\ errs[1].type = "InternalError"

---------------------------------------------------------------------------
(* C17 *)

\* C17: for an admission request on an Infrastructure object, a request without
\* an old object is validated by the create path (ValidateInfrastructureConfig
\* on the decoded config) and a request with an old object by the update path
\* (ValidateInfrastructureConfigUpdate on the two decoded configs), never the
\* other way round; the response is "allowed" if and only if the combined error
\* list (generic errors, then provider errors) is empty, and a rejection otherwise.
C17_CreateUpdateAdmit ==
    \A i \in DOMAIN calls :
        LET c == calls[i]
        IN  (c.pc = "done" /\ c.req.kind = "Infrastructure") =>
                /\ c.resp.allowed => i \in Validated
                /\ i \in Validated =>
                      /\ c.path = "create" <=> ~c.req.oldRaw.present
                      /\ c.path = "update" <=> c.req.oldRaw.present
                      /\ (c.path = "create" /\ Decodes(c.newObj)) =>
                            c.errs = ExtensionsValidate(c.newObj)
                                     \o ValidateInfrastructureConfig(ConfigOf(c.newObj),
                                            Cluster.nodes, Cluster.pods, Cluster.services)
                      /\ (c.path = "update" /\ Decodes(c.newObj) /\ Decodes(c.oldObj)) =>
                            c.errs = ExtensionsValidateUpdate(c.newObj, c.oldObj)
                                     \o ValidateInfrastructureConfigUpdate(ConfigOf(c.oldObj),
                                            ConfigOf(c.newObj),
                                            Cluster.nodes, Cluster.pods, Cluster.services)
                      /\ c.resp.allowed <=> c.errs = <<>>
                      /\ ~c.resp.allowed => (c.resp.code = 400 /\ c.resp.err.errs = c.errs)

\* an UPDATE of an Infrastructure whose networks changed is rejected with the
\* immutability error of the update path
C17_Witness ==
    \E i \in Validated :
        /\ calls[i].req.kind = "Infrastructure"
        /\ calls[i].req.oldRaw.present
        /\ calls[i].path = "update"
        /\ calls[i].errs = <<ImmutableErr>>
        /\ ~calls[i].resp.allowed

\* a CREATE of a valid Infrastructure is allowed
C17_WitnessCreate ==
    \E i \in Validated :
        /\ calls[i].req.kind = "Infrastructure"
        /\ ~calls[i].req.oldRaw.present
        /\ calls[i].path = "create"
        /\ calls[i].resp.allowed

---------------------------------------------------------------------------
(* C18 *)

\* the provider config of a pool that ValidateWorker gets to does not decode
SomePoolFailsToDecode(pools) ==
    \E k \in 1..Len(pools) :
        /\ pools[k].providerConfig = BadRaw
        /\ pools[k].volume = "typed"
        /\ \A j \in 1..(k - 1) :
              \/ pools[j].providerConfig = NilRaw
              \/ pools[j].providerConfig.raw = "encoded" /\ pools[j].volume = "typed"

---------------------------------------------------------------------------
(* C19 *)

\* C19: nothing is dropped between validation and the rejection reason: the
\* error genericvalidator.Validate returns, and the rejection made of it,
\* carries every error of the generic validation followed by every error of
\* the provider validator; and ValidateWorker returns every error it has
\* accumulated: the errors of the pools before a pool are still at the head of
\* the list whatever that pool and the later ones do.  (Fails: a pool whose
\* provider config does not decode makes ValidateWorker return the
\* InternalError alone.)
C19_NothingDropped ==
    \A i \in Validated :
        LET c == calls[i]
            provider == ProviderErrs(Cluster, c.oldObj, c.newObj).errs
        IN  /\ c.errs = GenericErrs(c.oldObj, c.newObj) \o provider
            /\ ~c.resp.allowed => c.resp.err.errs = c.errs
            /\ c.newObj.type = "Worker" =>
                  \A k \in 0..Len(c.newObj.pools) :
                      IsPrefix(ValidateWorkerFrom(SubSeq(c.newObj.pools, 1, k), 1, <<>>),
                               provider)

---------------------------------------------------------------------------
(* C20 *)

\* C20: under every interleaving of the invocations of handle, the shared
\* type map is never written (the registered objects stay as registered), and
\* each invocation returns the response it returns when run alone, its local
\* objects being those of the run alone.
C20_NoCoordination ==
    /\ typesMap = RegisteredTypes
    /\ \A i \in DOMAIN calls :
          /\ calls[i].pc # "panicked"
          /\ calls[i].pc = "done" => calls[i] = handle(calls[i].req)

\* two different requests of the same kind were handled at the same time and
\* answered differently
C20_Witness ==
    /\ Len(calls) >= 2
    /\ \A i \in DOMAIN calls : calls[i].pc = "done"
    /\ calls[1].req # calls[2].req
    /\ calls[1].req.kind = calls[2].req.kind
    /\ calls[1].resp.allowed
    /\ ~calls[2].resp.allowed

---------------------------------------------------------------------------
(* C24 *)

\* the errors of a returned list that the VPC section appended: those on
\* networks.vpc or networks.vpc.cidr and those naming the VPC CIDR field
VPCSectionErrs ==
    {j \in ErrIdx : \/ allErrs[j].field \in {vpcPath, vpcCIDRPath}
                    \/ allErrs[j].ofPath = vpcCIDRPath}

\* C24: the VPC CIDR checks run only when the VPC descriptor sets a CIDR and
\* no id: with both id and CIDR set, or neither, the VPC section contributes
\* exactly the one discriminator error, whatever the supplied VPC CIDR is (no
\* canonical-form, parse, subset or overlap error about it); with only an id
\* set the VPC section contributes no error at all.
C24_VPCChecksOnlyForCIDROnly ==
    Created =>
        /\ VPCBothOrNeither =>
              /\ Cardinality(VPCSectionErrs) = 1
              /\ \A j \in VPCSectionErrs : allErrs[j] = VPCErr
        /\ (infra.networks.vpc.id.set /\ ~infra.networks.vpc.cidr.set) =>
              VPCSectionErrs = {}

\* id and CIDR both set, the CIDR one the checks would reject (not canonical or
\* not parseable, or not containing the node CIDR): only the discriminator
\* error is returned for the VPC
C24_Witness ==
    /\ Created
    /\ infra.networks.vpc.id.set /\ infra.networks.vpc.cidr.set
    /\ \/ ~IsCanonical(VPCStr)
       \/ ParseOK(nodesCIDR) /\ ~IsSubset(nodesCIDR, VPCStr)
    /\ VPCSectionErrs # {}
    /\ \A j \in VPCSectionErrs : allErrs[j] = VPCErr

---------------------------------------------------------------------------
(* C25 *)

\* the invocations of handle that got to the call of the validator
ReachedValidator ==
    {i \in DOMAIN calls : \/ calls[i].pc \in {"handle", "panicked"}
                          \/ calls[i].pc = "done" /\ calls[i].newObj # NilObject}

\* C25: for every admission request that reaches the validator through handle,
\* the old object (when the request carries one) and the new object are
\* decoded into copies of the one registered prototype of the request's kind
\* and so have the same concrete type; the call of the AWS validator's
\* ValidateUpdate does not panic on its type assertions.
C25_SameConcreteType ==
    \A i \in ReachedValidator :
        LET c == calls[i]
        IN  /\ c.req.kind \in DOMAIN typesMap
            /\ c.objNew.type = typesMap[c.req.kind].type
            /\ c.newObj.type = c.objNew.type
            /\ c.req.oldRaw.present <=> c.oldObj # NilObject
            /\ c.req.oldRaw.present =>
                  /\ c.objOld.type = typesMap[c.req.kind].type
                  /\ c.oldObj.type = c.newObj.type
            /\ c.pc # "panicked"

\* an UPDATE whose old object is the document of an object of another kind went
\* through the update path of the validator
C25_Witness ==
    \E i \in ReachedValidator :
        /\ calls[i].pc = "done"
        /\ calls[i].path = "update"
        /\ calls[i].req.oldRaw.obj.type # calls[i].req.kind
        /\ calls[i].oldObj.type = calls[i].newObj.type

---------------------------------------------------------------------------
(* C26 *)

\* the calls of ValidateUpdate with an old and a new Worker
WorkerUpdates ==
    {i \in DOMAIN calls : /\ calls[i].path = "update"
                          /\ calls[i].oldObj.type = "Worker"
                          /\ calls[i].newObj.type = "Worker"}

\* C26: worker update validation ignores the old object: for every old worker
\* and new worker, ValidateUpdate(old, new) returns, without a panic, exactly
\* the error list that the create validation Validate(new) returns.
C26_WorkerUpdateIsCreate ==
    \A i \in WorkerUpdates :
        /\ calls[i].pc = "returned"
        /\ calls[i].errs = ProviderValidate(Cluster, calls[i].newObj).errs

\* an old worker whose own validation finds errors, updated to a new worker with
\* other pools: the list returned is that of the new worker, a different one
C26_Witness ==
    \E i \in WorkerUpdates :
        /\ calls[i].pc = "returned"
        /\ calls[i].oldObj.pools # calls[i].newObj.pools
        /\ ProviderValidate(Cluster, calls[i].oldObj).errs # <<>>
        /\ calls[i].errs # ProviderValidate(Cluster, calls[i].oldObj).errs

---------------------------------------------------------------------------
(* Reading the filtered events *)

\* the deliveries that were answered
Answered == {i \in DOMAIN calls : calls[i].pc = "filtered"}

\* the object an event carries as the cluster's state: the new object of an
\* update event, the object of the other events
EventCluster(event) == IF event.kind = "Update" THEN event.ObjectNew ELSE event.Object

\* the answered deliveries of Cluster objects to the predicate called `name`
AnsweredBy(name) ==
    {i \in Answered : /\ calls[i].predicate.name = name
                      /\ EventCluster(calls[i].event).type = "Cluster"}

\* the four kinds of events were delivered and answered
AllFourAnswered ==
    /\ Answered = DOMAIN calls
    /\ {calls[i].event.kind : i \in Answered} = {"Create", "Update", "Delete", "Generic"}

\* a version as a number: 1.18.5 is 11805, 1.18 is 11800
VersionNumber(v) == v.major * 10000 + v.minor * 100 + (IF v.patch < 0 THEN 0 ELSE v.patch)

IsVersion(v) == v.major >= 0

---------------------------------------------------------------------------
(* C21 *)

\* C21: ClusterShootProviderType(t) answers the Create, Update, Delete and
\* Generic events of a Cluster object alike: true if and only if the cluster
\* embeds a shoot whose provider type equals t.
C21_ProviderType ==
    /\ \A i \in AnsweredBy("ClusterShootProviderType") :
          LET cluster == EventCluster(calls[i].event)
          IN  calls[i].result = (/\ cluster.shootRaw.decodes
                                  /\ cluster.shootRaw.shoot.providerType = calls[i].predicate.arg)
    /\ \A i, j \in AnsweredBy("ClusterShootProviderType") :
          EventCluster(calls[i].event) = EventCluster(calls[j].event)
              => calls[i].result = calls[j].result

\* the four events of a cluster of the type asked for are all let through, the
\* update event carrying an old state of another type
C21_Witness ==
    /\ AllFourAnswered
    /\ AnsweredBy("ClusterShootProviderType") = DOMAIN calls
    /\ \A i \in DOMAIN calls : calls[i].result
    /\ \E i \in DOMAIN calls :
          /\ calls[i].event.kind = "Update"
          /\ calls[i].event.ObjectOld.shootRaw.shoot.providerType # calls[i].predicate.arg

---------------------------------------------------------------------------
(* C22 *)

\* C22: ClusterShootKubernetesVersionAtLeast(v) answers the Create, Update,
\* Delete and Generic events of a Cluster object alike: true if and only if
\* the Kubernetes version of the shoot embedded in the cluster is greater than
\* or equal to v (an equal version matches, 1.17 against 1.18 does not).
C22_KubernetesVersionAtLeast ==
    /\ \A i \in AnsweredBy("ClusterShootKubernetesVersionAtLeast") :
          LET cluster == EventCluster(calls[i].event)
              version == cluster.shootRaw.shoot.kubernetesVersion
              minimum == calls[i].predicate.arg
          IN  calls[i].result = (/\ cluster.shootRaw.decodes
                                  /\ IsVersion(version) /\ IsVersion(minimum)
                                  /\ VersionNumber(version) >= VersionNumber(minimum))
    /\ \A i, j \in AnsweredBy("ClusterShootKubernetesVersionAtLeast") :
          EventCluster(calls[i].event) = EventCluster(calls[j].event)
              => calls[i].result = calls[j].result

\* the four events of a cluster whose shoot has exactly the minimum version
\* (1.18.0 against 1.18) are all let through, the old state of the update
\* event being a 1.17 shoot
C22_Witness ==
    /\ AllFourAnswered
    /\ AnsweredBy("ClusterShootKubernetesVersionAtLeast") = DOMAIN calls
    /\ \A i \in DOMAIN calls :
          /\ calls[i].result
          /\ calls[i].predicate.arg = VersionStr(1, 18, -1)
          /\ EventCluster(calls[i].event).shootRaw.shoot.kubernetesVersion = VersionStr(1, 18, 0)
    /\ \E i \in DOMAIN calls :
          /\ calls[i].event.kind = "Update"
          /\ calls[i].event.ObjectOld.shootRaw.shoot.kubernetesVersion = VersionStr(1, 17, -1)

\* the four events of a 1.17 shoot are all filtered out by the minimum 1.18
C22_WitnessLower ==
    /\ AllFourAnswered
    /\ AnsweredBy("ClusterShootKubernetesVersionAtLeast") = DOMAIN calls
    /\ \A i \in DOMAIN calls :
          /\ ~calls[i].result
          /\ calls[i].predicate.arg = VersionStr(1, 18, -1)
          /\ EventCluster(calls[i].event).shootRaw.shoot.kubernetesVersion = VersionStr(1, 17, -1)

---------------------------------------------------------------------------
(* C23 *)

\* C23: ClusterCSIMigrationControllerFinished() answers the Create, Update,
\* Delete and Generic events of a Cluster object with true if and only if the
\* cluster does not carry the controller-finished annotation (the controller
\* has not finished); with the annotation present, every event of the cluster
\* is filtered out.
C23_ControllerFinished ==
    \A i \in AnsweredBy("ClusterCSIMigrationControllerFinished") :
        LET cluster == EventCluster(calls[i].event)
            keys == {a[1] : a \in cluster.annotations}
        IN  calls[i].result = (AnnotationKeyControllerFinished \notin keys)

\* the four events of a cluster that carries the annotation are all filtered
\* out, the old state of the update event being without the annotation
C23_Witness ==
    /\ AllFourAnswered
    /\ AnsweredBy("ClusterCSIMigrationControllerFinished") = DOMAIN calls
    /\ \A i \in DOMAIN calls :
          /\ ~calls[i].result
          /\ \E a \in EventCluster(calls[i].event).annotations :
                a[1] = AnnotationKeyControllerFinished
    /\ \E i \in DOMAIN calls :
          /\ calls[i].event.kind = "Update"
          /\ calls[i].event.ObjectOld.annotations = {}

=============================================================================
